---- MODULE Spec2Model ----
(***************************************************************************)
(* Model of the Voiceflow <-> nopCommerce gateway (src/app.py).            *)
(*                                                                         *)
(* The gateway is a single-process asyncio program: a coroutine runs       *)
(* atomically between two awaits, and every upstream HTTP call is an       *)
(* await.  Each action below is one such atomic stretch of a handler.      *)
(* The module holds one specification per component:                       *)
(*   SpecAdmin    get_admin_token under ADMIN_TOKEN_LOCK                   *)
(*   SpecSession  the session store: login, validate-and-touch            *)
(*   SpecPrices   POST /vf/prices: the pricing fan-out                     *)
(*   SpecOrder    POST /vf/orders/details: the order reconciliation        *)
(*   SpecCart     POST /vf/cart/update: concurrent cart updates            *)
(*   SpecLogout   the session store with callers asking to end sessions    *)
(*   SpecWish     POST /vf/wishlist/sync: syncs in a row                   *)
(*   SpecRma      POST /vf/rma/create: the RMA workflow                    *)
(*   SpecRmaSeq   POST /vf/rma/create: a request repeated after a success  *)
(*   SpecAdminLive  get_admin_token with a fair event loop and upstream    *)
(*   SpecClient   nc_post_json and nc_get_json on the upstream's answers   *)
(*   SpecGateway  the authenticated handlers with any session token        *)
(***************************************************************************)
EXTENDS Integers, Sequences, FiniteSets, TLC

(***************************************************************************)
(* Bounds of the model.                                                    *)
(***************************************************************************)
NumTasks == 3
MaxTime == 60
MaxCalls == 3
MaxSessions == 2
MaxSessTime == 3
MaxTtl == 2
MaxIds == 2

Tasks == 1..NumTasks

(***************************************************************************)
(* Program constants of get_admin_token.                                   *)
(***************************************************************************)
RefreshMargin == 10
MinTokenTtl == 60
DefaultExpiresIn == 3600
\* Default of SESSION_TTL_SECONDS.
DefaultSessionTtl == 3600

VARIABLES
    now,                     \* time.time()
    credsOk,                 \* NC_ADMIN_EMAIL and NC_ADMIN_PASSWORD are both set
    ADMIN_TOKEN,             \* cached admin token, NoToken for None
    ADMIN_TOKEN_EXPIRES_AT,  \* its absolute expiry
    lockHolder,              \* task inside "async with ADMIN_TOKEN_LOCK", 0 if none
    lockWaiters,             \* FIFO of tasks suspended in ADMIN_TOKEN_LOCK.acquire()
    pc,                      \* per task: position inside get_admin_token
    tokres,                  \* per task: what get_admin_token returned or raised
    reqId,                   \* per task: the upstream auth call it has in flight
    authCalls,               \* upstream auth calls issued so far
    nCalls,                  \* get_admin_token calls started so far
    staleEntry,              \* per task: cache was stale when the call was made
    issued,                  \* per task: the call issued an upstream auth call
    lastOkAt,                \* time of the last successful acquisition, -1 if none
    lastExpiresIn,           \* "expires_in" of the answer to the last successful acquisition
    SESSION_TTL_SECONDS,     \* configured session TTL
    SESSIONS,                \* sessionToken -> [customer_id, frontend_token, expires_at]
    issuedTokens,            \* session tokens new_session_token() has handed out
    awaiting,                \* tokens with a validated request awaiting the upstream
    resp,                    \* the last response a caller received
    evicted,                 \* tokens a validation found expired and removed
    touchedAt,               \* per token: time of creation or last successful validation
    reqTok,                  \* body.sessionToken of the request being handled
    productIds,              \* body.productIds
    ppc,                     \* position of the vf_prices handler
    results,                 \* per lookup: what get_final_price returned or raised
    priceResp,               \* the response of vf_prices
    doneOrder,               \* lookups in the order they completed
    opc,                     \* position of the vf_order_details handler
    orderData,               \* the frontend order the handler loaded
    shipments,               \* the backend shipments of the order, as returned
    cur,                     \* index of the shipment whose items are being fetched
    rawItems,                \* per shipment index: the shipment items, as returned
    hydrated,                \* nc_get_hydrated_shipments_for_order's list so far
    orderResp,               \* the response of vf_order_details
    rmaAnswer,               \* what the return-request search answered
    cart,                    \* the customer's shopping cart at the store
    updBody,                 \* per cart-update request: its body
    cpc,                     \* per cart-update request: its position
    cart_items,              \* per cart-update request: the cart lines it fetched
    payload,                 \* per cart-update request: the UpdateCart form it built
    updResp,                 \* per cart-update request: its response
    wishlist,                \* the customer's wishlist at the store: product ids
    wCart,                   \* the product ids of the customer's cart lines
    wpc,                     \* position of the vf_wishlist_sync handler
    wrun,                    \* the wishlist sync in progress: what it read and sent
    wlog,                    \* the wishlist syncs that have completed, in order
    rpc,                     \* position of the vf_create_rma handler
    rBody,                   \* the body of the create-RMA request
    rma,                     \* the handler's locals: order, customer, loop state, RMA id
    rCreates,                \* the ReturnRequest/Create calls issued, in order
    rUpdates,                \* the ReturnRequest/Update calls issued, in order
    rmaStore,                \* the return requests at the store, by id
    rResp,                   \* the response of vf_create_rma
    clientLog,               \* the upstream client's calls: answer received, outcome
    rmaDone                  \* the create-RMA requests answered with success before this one

adminVars == <<credsOk, ADMIN_TOKEN, ADMIN_TOKEN_EXPIRES_AT, lockHolder, lockWaiters,
               pc, tokres, reqId, authCalls, nCalls, staleEntry, issued, lastOkAt, lastExpiresIn>>

sessVars == <<SESSION_TTL_SECONDS, SESSIONS, issuedTokens, awaiting, resp, evicted,
              touchedAt>>

priceVars == <<productIds, ppc, results, priceResp, doneOrder>>

orderVars == <<opc, orderData, shipments, cur, rawItems, hydrated, orderResp, rmaAnswer>>

cartVars == <<cart, updBody, cpc, cart_items, payload, updResp>>

wishVars == <<wishlist, wCart, wpc, wrun, wlog>>

rmaVars == <<rpc, rBody, rma, rCreates, rUpdates, rmaStore, rResp>>

clientVars == <<clientLog>>

rmaSeqVars == <<rmaDone>>

vars == <<now, adminVars, sessVars, reqTok, priceVars, orderVars, cartVars, wishVars,
          rmaVars, clientVars, rmaSeqVars>>

\* The variables outside a component, which its actions leave alone.
notAdmin == <<sessVars, reqTok, priceVars, orderVars, cartVars, wishVars, rmaVars, clientVars, rmaSeqVars>>
notSess == <<adminVars, reqTok, priceVars, orderVars, cartVars, wishVars, rmaVars, clientVars, rmaSeqVars>>
notPrices == <<orderVars, cartVars, wishVars, rmaVars, clientVars, rmaSeqVars>>
notOrder == <<priceVars, cartVars, wishVars, rmaVars, clientVars, rmaSeqVars>>
notCart == <<adminVars, reqTok, priceVars, orderVars, wishVars, rmaVars, clientVars, rmaSeqVars>>
notWish == <<adminVars, priceVars, orderVars, cartVars, rmaVars, clientVars, rmaSeqVars>>
notRma == <<priceVars, orderVars, cartVars, wishVars, clientVars, rmaSeqVars>>

NoToken == 0
\* A JSON field that may be missing from a response body.
Absent == [has |-> FALSE, val |-> 0]
Field(v) == [has |-> TRUE, val |-> v]

\* What a call returns (ok) or the HTTPException it raises (~ok).
Ok(v) == [ok |-> TRUE, status |-> 200, val |-> v, detail |-> ""]
Err(s, d) == [ok |-> FALSE, status |-> s, val |-> 0, detail |-> d]
NoResult == [ok |-> FALSE, status |-> 0, val |-> 0, detail |-> ""]

Max(a, b) == IF a >= b THEN a ELSE b

(***************************************************************************)
(* time.time() advancing between two atomic stretches.                     *)
(***************************************************************************)
TickSteps == {10, 50}

Tick ==
    /\ \E d \in TickSteps :
         /\ now + d <= MaxTime
         /\ now' = now + d
    /\ UNCHANGED <<adminVars, notAdmin>>

(***************************************************************************)
(* get_admin_token                                                         *)
(***************************************************************************)
\* "ADMIN_TOKEN and ADMIN_TOKEN_EXPIRES_AT > now() + 10"
CacheFresh_NoMargin(tok, exp, t) == tok # NoToken /\ exp > t
CacheFresh_Inclusive(tok, exp, t) == tok # NoToken /\ exp >= t + RefreshMargin
CacheFresh(tok, exp, t) == tok # NoToken /\ exp > t + RefreshMargin

\* asyncio.Lock.acquire() returns at once only if the lock is free and nobody waits.
CanAcquire_NoLock == TRUE
CanAcquire == lockHolder = 0 /\ lockWaiters = <<>>

\* "now() + max(60, expires_in)", expires_in defaulting to 3600
NewExpiry_NoFloor(t, expires_in) ==
    t + (IF expires_in.has THEN expires_in.val ELSE DefaultExpiresIn)
NewExpiry(t, expires_in) ==
    t + Max(MinTokenTtl, IF expires_in.has THEN expires_in.val ELSE DefaultExpiresIn)

\* The body of "async with ADMIN_TOKEN_LOCK" up to its first await, run by task t
\* as it gets the lock: cache hit, missing credentials, or the auth call issued.
AdminSection_KeepLock(t) ==
    IF CacheFresh(ADMIN_TOKEN, ADMIN_TOKEN_EXPIRES_AT, now)
    THEN /\ pc' = [pc EXCEPT ![t] = "tokdone"]
         /\ tokres' = [tokres EXCEPT ![t] = Ok(ADMIN_TOKEN)]
         /\ lockHolder' = 0
         /\ UNCHANGED <<reqId, authCalls, issued>>
    ELSE IF ~credsOk
    THEN /\ pc' = [pc EXCEPT ![t] = "tokdone"]
         /\ tokres' = [tokres EXCEPT ![t] =
                          Err(500, "Missing NC_ADMIN_EMAIL / NC_ADMIN_PASSWORD")]
         /\ lockHolder' = t
         /\ UNCHANGED <<reqId, authCalls, issued>>
    ELSE /\ pc' = [pc EXCEPT ![t] = "posting"]
         /\ authCalls' = authCalls + 1
         /\ reqId' = [reqId EXCEPT ![t] = authCalls + 1]
         /\ issued' = [issued EXCEPT ![t] = TRUE]
         /\ lockHolder' = t
         /\ UNCHANGED tokres
AdminSection(t) ==
    IF CacheFresh(ADMIN_TOKEN, ADMIN_TOKEN_EXPIRES_AT, now)
    THEN /\ pc' = [pc EXCEPT ![t] = "tokdone"]
         /\ tokres' = [tokres EXCEPT ![t] = Ok(ADMIN_TOKEN)]
         /\ lockHolder' = 0
         /\ UNCHANGED <<reqId, authCalls, issued>>
    ELSE IF ~credsOk
    THEN /\ pc' = [pc EXCEPT ![t] = "tokdone"]
         /\ tokres' = [tokres EXCEPT ![t] =
                          Err(500, "Missing NC_ADMIN_EMAIL / NC_ADMIN_PASSWORD")]
         /\ lockHolder' = 0
         /\ UNCHANGED <<reqId, authCalls, issued>>
    ELSE /\ pc' = [pc EXCEPT ![t] = "posting"]
         /\ authCalls' = authCalls + 1
         /\ reqId' = [reqId EXCEPT ![t] = authCalls + 1]
         /\ issued' = [issued EXCEPT ![t] = TRUE]
         /\ lockHolder' = t
         /\ UNCHANGED tokres

\* A task calls get_admin_token(): it takes the lock and runs on, or queues.
get_admin_token(t) ==
    /\ pc[t] = "idle"
    /\ nCalls' = nCalls + 1
    /\ staleEntry' = [staleEntry EXCEPT ![t] =
                         ~CacheFresh(ADMIN_TOKEN, ADMIN_TOKEN_EXPIRES_AT, now)]
    /\ IF CanAcquire
       THEN /\ AdminSection(t)
            /\ UNCHANGED lockWaiters
       ELSE /\ pc' = [pc EXCEPT ![t] = "waitlock"]
            /\ lockWaiters' = Append(lockWaiters, t)
            /\ UNCHANGED <<tokres, reqId, authCalls, issued, lockHolder>>
    /\ UNCHANGED <<now, credsOk, ADMIN_TOKEN, ADMIN_TOKEN_EXPIRES_AT, lastOkAt, lastExpiresIn, notAdmin>>

\* The lock is released while t waits: t, woken first in FIFO order, takes it.
AdminResume(t) ==
    /\ pc[t] = "waitlock"
    /\ lockHolder = 0
    /\ lockWaiters # <<>> /\ Head(lockWaiters) = t
    /\ lockWaiters' = Tail(lockWaiters)
    /\ AdminSection(t)
    /\ UNCHANGED <<now, credsOk, ADMIN_TOKEN, ADMIN_TOKEN_EXPIRES_AT, nCalls,
                   staleEntry, lastOkAt, lastExpiresIn, notAdmin>>

\* What the backend token endpoint may answer (nc_post_json's view of it):
\* an error status, or a body whose "token" is usable or not and whose
\* "expires_in" is absent or a number.  An empty or non-JSON body is {}.
ExpiresInValues == {Absent, Field(-5), Field(0), Field(75)}
AuthResponses ==
    [status : {200, 401}, hasToken : BOOLEAN, expires_in : ExpiresInValues]

\* The auth call of t returns: nc_post_json raises on status >= 400, a body
\* without a token raises 502, otherwise token and expiry are stored together.
AdminPostReturn_AssignFirst(t) ==
    /\ pc[t] = "posting"
    /\ \E r \in AuthResponses :
         IF r.status >= 400
         THEN /\ tokres' = [tokres EXCEPT ![t] = Err(502, "nopCommerce POST failed")]
              /\ UNCHANGED <<ADMIN_TOKEN, ADMIN_TOKEN_EXPIRES_AT, lastOkAt, lastExpiresIn>>
         ELSE IF ~r.hasToken
         THEN /\ ADMIN_TOKEN' = NoToken
              /\ tokres' = [tokres EXCEPT ![t] = Err(502, "Could not parse admin token")]
              /\ UNCHANGED <<ADMIN_TOKEN_EXPIRES_AT, lastOkAt, lastExpiresIn>>
         ELSE /\ ADMIN_TOKEN' = reqId[t]
              /\ ADMIN_TOKEN_EXPIRES_AT' = NewExpiry(now, r.expires_in)
              /\ tokres' = [tokres EXCEPT ![t] = Ok(reqId[t])]
              /\ lastOkAt' = now
              /\ lastExpiresIn' = r.expires_in
    /\ pc' = [pc EXCEPT ![t] = "tokdone"]
    /\ lockHolder' = 0
    /\ UNCHANGED <<now, credsOk, lockWaiters, reqId, authCalls, nCalls, staleEntry, issued,
                   notAdmin>>
AdminPostReturn(t) ==
    /\ pc[t] = "posting"
    /\ \E r \in AuthResponses :
         IF r.status >= 400
         THEN /\ tokres' = [tokres EXCEPT ![t] = Err(502, "nopCommerce POST failed")]
              /\ UNCHANGED <<ADMIN_TOKEN, ADMIN_TOKEN_EXPIRES_AT, lastOkAt, lastExpiresIn>>
         ELSE IF ~r.hasToken
         THEN /\ tokres' = [tokres EXCEPT ![t] = Err(502, "Could not parse admin token")]
              /\ UNCHANGED <<ADMIN_TOKEN, ADMIN_TOKEN_EXPIRES_AT, lastOkAt, lastExpiresIn>>
         ELSE /\ ADMIN_TOKEN' = reqId[t]
              /\ ADMIN_TOKEN_EXPIRES_AT' = NewExpiry(now, r.expires_in)
              /\ tokres' = [tokres EXCEPT ![t] = Ok(reqId[t])]
              /\ lastOkAt' = now
              /\ lastExpiresIn' = r.expires_in
    /\ pc' = [pc EXCEPT ![t] = "tokdone"]
    /\ lockHolder' = 0
    /\ UNCHANGED <<now, credsOk, lockWaiters, reqId, authCalls, nCalls, staleEntry, issued,
                   notAdmin>>

\* The caller takes the result of its call and is free to call again.
AdminCallerReturn(t) ==
    /\ pc[t] = "tokdone"
    /\ pc' = [pc EXCEPT ![t] = "idle"]
    /\ tokres' = [tokres EXCEPT ![t] = NoResult]
    /\ staleEntry' = [staleEntry EXCEPT ![t] = FALSE]
    /\ issued' = [issued EXCEPT ![t] = FALSE]
    /\ UNCHANGED <<now, credsOk, ADMIN_TOKEN, ADMIN_TOKEN_EXPIRES_AT, lockHolder,
                   lockWaiters, reqId, authCalls, nCalls, lastOkAt, lastExpiresIn, notAdmin>>

\* The admin-token state of a fresh process (lines 50-52).
AdminFresh ==
    /\ ADMIN_TOKEN = NoToken
    /\ ADMIN_TOKEN_EXPIRES_AT = 0
    /\ lockHolder = 0
    /\ lockWaiters = <<>>
    /\ pc = [t \in Tasks |-> "idle"]
    /\ tokres = [t \in Tasks |-> NoResult]
    /\ reqId = [t \in Tasks |-> 0]
    /\ authCalls = 0
    /\ nCalls = 0
    /\ staleEntry = [t \in Tasks |-> FALSE]
    /\ issued = [t \in Tasks |-> FALSE]
    /\ lastOkAt = -1
    /\ lastExpiresIn = Absent

NoResp == [op |-> "none", tok |-> 0, res |-> NoResult, at |-> 0, idle |-> 0, live |-> FALSE]

\* The session store of a fresh process (line 48).
SessFresh ==
    /\ SESSIONS = <<>>
    /\ issuedTokens = {}
    /\ awaiting = {}
    /\ resp = NoResp
    /\ evicted = {}
    /\ touchedAt = <<>>

SessUnused == SESSION_TTL_SECONDS = DefaultSessionTtl /\ SessFresh

NoPriceResp == [res |-> NoResult, customerId |-> 0, prices |-> <<>>, errors |-> <<>>]

\* No request to /vf/prices.
PricesUnused ==
    /\ productIds = <<>>
    /\ ppc = "none"
    /\ results = <<>>
    /\ priceResp = NoPriceResp
    /\ doneOrder = <<>>

NoOrderResp == [res |-> NoResult, items |-> <<>>]
NoAnswer == [status |-> 0, body |-> "", items |-> <<>>]

\* No request to /vf/orders/details.
OrderUnused ==
    /\ opc = "none"
    /\ orderData = <<>>
    /\ shipments = <<>>
    /\ cur = 0
    /\ rawItems = <<>>
    /\ hydrated = <<>>
    /\ orderResp = NoOrderResp
    /\ rmaAnswer = NoAnswer

\* No request to /vf/cart/update.
CartUnused ==
    /\ cart = <<>>
    /\ updBody = <<>>
    /\ cpc = <<>>
    /\ cart_items = <<>>
    /\ payload = <<>>
    /\ updResp = <<>>

\* A wishlist sync that has read and sent nothing yet.
NoRun ==
    [sessOk |-> FALSE, cartOk |-> FALSE, cart_products |-> {}, wishAt |-> {},
     wishlist_products |-> {}, to_add |-> {}, calls |-> <<>>,
     readFailed |-> FALSE, updFailed |-> FALSE]

\* No request to /vf/wishlist/sync.
WishUnused ==
    /\ wishlist = {}
    /\ wCart = <<>>
    /\ wpc = "none"
    /\ wrun = NoRun
    /\ wlog = <<>>

\* No call of the upstream client on record.
ClientUnused == clientLog = <<>>

\* The locals of vf_create_rma before anything is loaded.
NoRma ==
    [items |-> <<>>, shipments |-> <<>>, customer_id |-> 0, cur |-> 0,
     shipped_qty |-> 0, fetched |-> <<>>, rma_id |-> 0]

\* No request to /vf/rma/create.
RmaUnused ==
    /\ rpc = "none"
    /\ rBody = [orderItemId |-> 0, quantity |-> 0]
    /\ rma = NoRma
    /\ rCreates = <<>>
    /\ rUpdates = <<>>
    /\ rmaStore = <<>>
    /\ rResp = NoResult

InitAdmin ==
    /\ now = 0
    /\ credsOk \in BOOLEAN
    /\ AdminFresh
    /\ SessUnused
    /\ reqTok = 0
    /\ PricesUnused
    /\ OrderUnused
    /\ CartUnused
    /\ WishUnused
    /\ RmaUnused
    /\ ClientUnused
    /\ rmaDone = <<>>

\* Some coroutine of the process calls get_admin_token().
AdminCall(t) ==
    /\ nCalls < MaxCalls
    /\ get_admin_token(t)

NextAdmin ==
    \/ Tick
    \/ \E t \in Tasks : AdminCall(t)
    \/ \E t \in Tasks : AdminResume(t)
    \/ \E t \in Tasks : AdminPostReturn(t)
    \/ \E t \in Tasks : AdminCallerReturn(t)

SpecAdmin == InitAdmin /\ [][NextAdmin]_vars

(***************************************************************************)
(* Claims about get_admin_token (SpecAdmin).                               *)
(***************************************************************************)
InFlight == {t \in Tasks : pc[t] = "posting"}

\* Task t leaves the lock wait in this step.
LeavesWait(t) == pc[t] = "waitlock" /\ pc'[t] # "waitlock"

\* Task t runs the cache check in this step (on entry or on leaving the wait).
RunsCheck(t) == pc[t] \in {"idle", "waitlock"} /\ pc'[t] \in {"posting", "tokdone"}

\* C1 as stated: among callers that run concurrently while the cache is stale
\* exactly one upstream authentication call is issued, so a caller that had to
\* wait for the lock behind the acquisition in flight never issues a call of
\* its own and returns the freshly acquired token.
C1_Original ==
    [][\A t \in Tasks :
          LeavesWait(t) =>
              /\ authCalls' = authCalls
              /\ pc'[t] = "tokdone"
              /\ tokres'[t] = Ok(ADMIN_TOKEN)
              /\ ADMIN_TOKEN # NoToken]_vars

\* C1 amended: at most one acquisition is in flight at any time; an upstream
\* authentication call is issued only with none in flight and never less than
\* 50 s (the 60 s floor minus the 10 s margin) after a successful acquisition;
\* a waiter that leaves the lock wait within those 50 s issues no call and
\* returns the token that acquisition stored.  After a failed acquisition the
\* next waiter issues its own call.
C1_AtMostOneInFlight ==
    /\ [](Cardinality(InFlight) <= 1)
    /\ [](\A t \in InFlight : lockHolder = t)
    /\ [][/\ authCalls' # authCalls =>
                /\ authCalls' = authCalls + 1
                /\ InFlight = {}
                /\ lastOkAt >= 0 => now >= lastOkAt + (MinTokenTtl - RefreshMargin)
          /\ \A t \in Tasks :
                (LeavesWait(t) /\ lastOkAt >= 0
                   /\ now < lastOkAt + (MinTokenTtl - RefreshMargin)) =>
                    /\ authCalls' = authCalls
                    /\ pc'[t] = "tokdone"
                    /\ tokres'[t] = Ok(ADMIN_TOKEN)
                    /\ ADMIN_TOKEN # NoToken]_vars

\* C1 witness: three concurrent callers found the cache stale, one of them
\* issued the only upstream call and all three hold the same token.
C1_Witness ==
    /\ authCalls = 1
    /\ \A t \in 1..3 : pc[t] = "tokdone" /\ staleEntry[t] /\ tokres[t] = Ok(ADMIN_TOKEN)
    /\ Cardinality({t \in 1..3 : issued[t]}) = 1
    /\ ADMIN_TOKEN # NoToken

\* C2 as stated: a call made while the cache is fresh returns the cached token
\* without an upstream call, and a call made while it is stale (no token, or
\* expiry 10 s or less ahead) issues one.
C2_Original ==
    \A t \in Tasks :
        pc[t] = "tokdone" =>
            /\ ~staleEntry[t] => (~issued[t] /\ tokres[t].ok)
            /\ staleEntry[t] => issued[t]

\* C2 amended: the cache check is made when the call holds the lock.  A call
\* that then finds a token cached with expiry more than 10 s ahead returns that
\* token and issues no upstream call; a call that then finds no token or an
\* expiry 10 s or less ahead issues exactly one upstream call if the service
\* credentials are configured, and fails with the configuration error, without
\* any upstream call, if they are not.
C2_CacheWindow ==
    [][\A t \in Tasks :
          RunsCheck(t) =>
              IF ADMIN_TOKEN # NoToken /\ ADMIN_TOKEN_EXPIRES_AT - now > 10
              THEN /\ pc'[t] = "tokdone"
                   /\ tokres'[t] = Ok(ADMIN_TOKEN)
                   /\ authCalls' = authCalls
              ELSE IF credsOk
              THEN /\ pc'[t] = "posting"
                   /\ authCalls' = authCalls + 1
              ELSE /\ pc'[t] = "tokdone"
                   /\ tokres'[t].status = 500
                   /\ authCalls' = authCalls]_vars

\* C2 witness: one call was served from the cache while another, made with the
\* cached token exactly 10 s from expiry, has issued a refresh.
C2_Witness ==
    \E t, u \in Tasks :
        /\ pc[t] = "tokdone" /\ ~staleEntry[t] /\ ~issued[t] /\ tokres[t].ok
        /\ pc[u] = "posting" /\ ADMIN_TOKEN # NoToken
        /\ ADMIN_TOKEN_EXPIRES_AT - now = 10

\* A call of t completes in this step, with a failure.
FailsNow(t) == pc[t] # "tokdone" /\ pc'[t] = "tokdone" /\ ~tokres'[t].ok

DeclaredTtl == IF lastExpiresIn.has THEN lastExpiresIn.val ELSE 3600

\* C23: a successful acquisition sets the cached expiry to the time of the
\* acquisition plus the declared TTL (3600 when absent), or plus 60 when the
\* declared TTL is below 60; so the expiry is at least 60 seconds after the
\* acquisition, also for a declared TTL of 0 or less.  The expiry changes in
\* no other step.
C23_ExpiryFloor ==
    /\ [][\A t \in Tasks :
            (pc[t] = "posting" /\ pc'[t] = "tokdone" /\ tokres'[t].ok)
            => /\ ADMIN_TOKEN_EXPIRES_AT' =
                      now + (IF DeclaredTtl' >= 60 THEN DeclaredTtl' ELSE 60)
               /\ ADMIN_TOKEN_EXPIRES_AT' >= now + 60
               /\ lastOkAt' = now]_vars
    /\ [](lastOkAt >= 0 =>
            /\ ADMIN_TOKEN_EXPIRES_AT =
                   lastOkAt + (IF DeclaredTtl >= 60 THEN DeclaredTtl ELSE 60)
            /\ ADMIN_TOKEN_EXPIRES_AT >= lastOkAt + 60)

\* C23 witness: a token was acquired at time 10 with a declared TTL of -5 and
\* is cached until 70.
C23_Witness ==
    /\ lastOkAt = 10
    /\ lastExpiresIn = Field(-5)
    /\ ADMIN_TOKEN # NoToken
    /\ ADMIN_TOKEN_EXPIRES_AT = 70

\* The event loop runs a coroutine that is ready: a waiter at the head of
\* the lock's queue once the lock is free, and the holder once its upstream
\* call has completed or failed.
FairAdmin ==
    \A t \in Tasks : WF_vars(AdminResume(t)) /\ WF_vars(AdminPostReturn(t))

\* The calls of one burst: the clock does not advance between them.
NextAdminLive ==
    \/ \E t \in Tasks : AdminCall(t)
    \/ \E t \in Tasks : AdminResume(t)
    \/ \E t \in Tasks : AdminPostReturn(t)
    \/ \E t \in Tasks : AdminCallerReturn(t)

SpecAdminLive == InitAdmin /\ [][NextAdminLive]_vars /\ FairAdmin

\* C28: every get_admin_token call that waits for the lock or for the
\* upstream eventually returns a token or an error.
C28_NoStarvation ==
    \A t \in Tasks : (pc[t] \in {"waitlock", "posting"}) ~> (pc[t] = "tokdone")

\* C28 witness: a caller that waited for the lock behind a failed
\* acquisition has made its own upstream call and returned, with the lock
\* free again.
C28_Witness ==
    \E t \in Tasks :
        /\ pc[t] = "tokdone" /\ issued[t] /\ staleEntry[t]
        /\ authCalls = 2 /\ reqId[t] = 2
        /\ \E u \in Tasks \ {t} : pc[u] = "tokdone" /\ ~tokres[u].ok /\ reqId[u] = 1
        /\ lockHolder = 0 /\ lockWaiters = <<>>

(***************************************************************************)
(* Session store                                                           *)
(***************************************************************************)
SessionTokens == 1..MaxSessions
Customers == {7, 8}

\* time.time() advancing, in the session store's specification.
TickSession ==
    /\ now < MaxSessTime
    /\ now' = now + 1
    /\ UNCHANGED <<sessVars, notSess>>

\* secrets.token_urlsafe(32): a token never handed out before.
new_session_token_Fixed(used) == 1
new_session_token(used) == CHOOSE k \in SessionTokens \ used : TRUE

\* "sess['expires_at'] < now()"
IsExpired_Inclusive(sess, t) == sess.expires_at <= t
IsExpired(sess, t) == sess.expires_at < t

\* "SESSIONS.pop(session_token, None)"
Pop_Keep(S, tok) == S
Pop(S, tok) == [k \in DOMAIN S \ {tok} |-> S[k]]

\* "sess['expires_at'] = now() + SESSION_TTL_SECONDS"
Touch_NoSlide(S, tok, t) == S
Touch(S, tok, t) == [S EXCEPT ![tok].expires_at = t + SESSION_TTL_SECONDS]

\* require_session_token: the store it leaves behind ...
RequireStore(S, tok, t) ==
    IF tok \notin DOMAIN S THEN S
    ELSE IF IsExpired(S[tok], t) THEN Pop(S, tok)
    ELSE Touch(S, tok, t)

\* ... and the session it returns or the HTTPException it raises.
RequireResult(S, tok, t) ==
    IF tok \notin DOMAIN S THEN Err(401, "Invalid session")
    ELSE IF IsExpired(S[tok], t) THEN Err(401, "Session expired")
    ELSE Ok(tok)

\* The bookkeeping of one require_session_token(tok) call made by handler op.
Validate(op, tok) ==
    /\ SESSIONS' = RequireStore(SESSIONS, tok, now)
    /\ evicted' = IF tok \in DOMAIN SESSIONS /\ IsExpired(SESSIONS[tok], now)
                  THEN evicted \cup {tok} ELSE evicted
    /\ touchedAt' = IF RequireResult(SESSIONS, tok, now).ok
                    THEN [touchedAt EXCEPT ![tok] = now] ELSE touchedAt
    /\ resp' = [op |-> op, tok |-> tok, res |-> RequireResult(SESSIONS, tok, now),
                at |-> now,
                idle |-> IF tok \in DOMAIN touchedAt THEN now - touchedAt[tok] ELSE 0,
                live |-> tok \in issuedTokens \ evicted]

\* What the frontend token endpoint may answer to a login.
LoginResponses ==
    [status : {200, 401}, hasToken : BOOLEAN, customer_id : {Absent} \cup {Field(c) : c \in Customers}]

\* POST /vf/login, from the return of the upstream call on: a session is
\* created only if the answer carries a token and a customer id.
vf_login ==
    /\ issuedTokens # SessionTokens
    /\ \E r \in LoginResponses :
         IF r.status >= 400
         THEN /\ resp' = [op |-> "login", tok |-> 0, at |-> now, idle |-> 0, live |-> FALSE,
                          res |-> Err(502, "nopCommerce POST failed")]
              /\ UNCHANGED <<SESSIONS, issuedTokens, touchedAt>>
         ELSE IF ~r.hasToken \/ ~r.customer_id.has
         THEN /\ resp' = [op |-> "login", tok |-> 0, at |-> now, idle |-> 0, live |-> FALSE,
                          res |-> Err(502, "Could not authenticate customer with nopCommerce")]
              /\ UNCHANGED <<SESSIONS, issuedTokens, touchedAt>>
         ELSE LET tok == new_session_token(issuedTokens)
                  sess == [customer_id |-> r.customer_id.val,
                           frontend_token |-> r.customer_id.val,
                           expires_at |-> now + SESSION_TTL_SECONDS]
              IN /\ SESSIONS' = [k \in DOMAIN SESSIONS \cup {tok} |->
                                    IF k = tok THEN sess ELSE SESSIONS[k]]
                 /\ issuedTokens' = issuedTokens \cup {tok}
                 /\ touchedAt' = [k \in DOMAIN touchedAt \cup {tok} |->
                                     IF k = tok THEN now ELSE touchedAt[k]]
                 /\ resp' = [op |-> "login", tok |-> tok, at |-> now, idle |-> 0, live |-> FALSE,
                             res |-> Ok(tok)]
    /\ UNCHANGED <<now, SESSION_TTL_SECONDS, awaiting, evicted, notSess>>

\* POST /vf/session/assert
vf_session_assert(tok) ==
    /\ Validate("assert", tok)
    /\ UNCHANGED <<now, SESSION_TTL_SECONDS, issuedTokens, awaiting, notSess>>

\* POST /vf/cart up to its await: the session is validated, then the cart is
\* requested from the upstream with the session's frontend token.
vf_cart_get(tok) ==
    /\ tok \notin awaiting
    /\ Validate("cart", tok)
    /\ awaiting' = IF RequireResult(SESSIONS, tok, now).ok
                   THEN awaiting \cup {tok} ELSE awaiting
    /\ UNCHANGED <<now, SESSION_TTL_SECONDS, issuedTokens, notSess>>

\* The upstream answers and the handler returns; the session is not read again.
vf_cart_get_return(tok) ==
    /\ tok \in awaiting
    /\ awaiting' = awaiting \ {tok}
    /\ UNCHANGED <<now, SESSION_TTL_SECONDS, SESSIONS, issuedTokens, resp, evicted,
                   touchedAt, notSess>>

InitSession ==
    /\ now = 0
    /\ SESSION_TTL_SECONDS \in 0..MaxTtl
    /\ SessFresh
    /\ credsOk = TRUE
    /\ AdminFresh
    /\ reqTok = 0
    /\ PricesUnused
    /\ OrderUnused
    /\ CartUnused
    /\ WishUnused
    /\ RmaUnused
    /\ ClientUnused
    /\ rmaDone = <<>>

\* A caller asks to end the session of tok.  The app routes /health,
\* /vf/session/assert, /vf/login and the store operations, and none of its
\* handlers removes a session on request: no handler runs, the framework
\* answers 404 and the store is left as it is.
logout_request(tok) ==
    /\ resp' = [op |-> "logout", tok |-> tok, res |-> Err(404, "Not Found"),
                at |-> now, idle |-> 0, live |-> tok \in issuedTokens \ evicted]
    /\ UNCHANGED <<now, SESSION_TTL_SECONDS, SESSIONS, issuedTokens, awaiting, evicted,
                   touchedAt, notSess>>

NextSession ==
    \/ TickSession
    \/ vf_login
    \/ \E tok \in SessionTokens : vf_session_assert(tok)
    \/ \E tok \in SessionTokens : vf_cart_get(tok)
    \/ \E tok \in SessionTokens : vf_cart_get_return(tok)

SpecSession == InitSession /\ [][NextSession]_vars

\* The session store with callers that also ask to end their sessions.
NextLogout ==
    \/ TickSession
    \/ vf_login
    \/ \E tok \in SessionTokens : vf_session_assert(tok)
    \/ \E tok \in SessionTokens : logout_request(tok)

SpecLogout == InitSession /\ [][NextLogout]_vars

(***************************************************************************)
(* Claims about the session store (SpecSession).                           *)
(***************************************************************************)
ValidatingOps == {"assert", "cart"}

\* C3: sliding TTL.  A validation of a session made no more than TTL after its
\* creation or its previous successful validation succeeds and sets the expiry
\* to the time of the validation plus TTL; the first validation after an idle
\* period longer than TTL fails with "Session expired" and leaves the token out
\* of the store.
C3_SlidingTtl ==
    (resp.op \in ValidatingOps /\ resp.live) =>
        IF resp.idle <= SESSION_TTL_SECONDS
        THEN /\ resp.res = Ok(resp.tok)
             /\ resp.tok \in DOMAIN SESSIONS
             /\ SESSIONS[resp.tok].expires_at = resp.at + SESSION_TTL_SECONDS
        ELSE /\ resp.res = Err(401, "Session expired")
             /\ resp.tok \notin DOMAIN SESSIONS

\* C3 witness: one session has been evicted after idling past the TTL, and
\* another has just been validated exactly TTL after its previous use, late
\* enough that only the earlier extensions kept it alive.
C3_Witness ==
    /\ evicted # {}
    /\ SESSION_TTL_SECONDS >= 1
    /\ resp.op \in ValidatingOps /\ resp.res.ok
    /\ resp.tok \notin evicted
    /\ resp.idle = SESSION_TTL_SECONDS
    /\ SESSIONS[resp.tok].expires_at = now + SESSION_TTL_SECONDS

\* C4: validate-and-touch is atomic per token.  A token that one validation
\* found expired and evicted is in the store no more and no validation of it
\* succeeds afterwards, whatever requests are in flight; and the expiry of every
\* stored session is the one written by its latest successful validation (or
\* its creation), so no extension is lost.
C4_AtomicValidate ==
    /\ evicted \cap DOMAIN SESSIONS = {}
    /\ (resp.op \in ValidatingOps /\ resp.res.ok) => resp.tok \notin evicted
    /\ \A tok \in DOMAIN SESSIONS :
          SESSIONS[tok].expires_at = touchedAt[tok] + SESSION_TTL_SECONDS

\* C4 witness: while a request that validated the token is still awaiting the
\* upstream, a second request found the token expired and evicted it, and a
\* third validation of the same token has failed.
C4_Witness ==
    \E tok \in SessionTokens :
        /\ tok \in awaiting
        /\ tok \in evicted
        /\ resp.tok = tok
        /\ resp.res = Err(401, "Invalid session")

\* The identity of a stored session and the validation a step has made.
IdentityOf(sess) == <<sess.customer_id, sess.frontend_token>>
Validated(tok) == resp'.op \in ValidatingOps /\ resp'.tok = tok

\* C26: in every step, a stored session keeps its customer id and frontend
\* token; its expiry changes only by a successful validation of its own token;
\* it is removed only by a validation of its own token that found it expired;
\* and an entry is added only by a login, under a token never issued before.
C26_OneIdentity ==
    [][/\ \A k \in DOMAIN SESSIONS :
            IF k \in DOMAIN SESSIONS'
            THEN /\ IdentityOf(SESSIONS'[k]) = IdentityOf(SESSIONS[k])
                 /\ SESSIONS'[k].expires_at # SESSIONS[k].expires_at
                       => Validated(k) /\ resp'.res.ok
            ELSE Validated(k) /\ resp'.res = Err(401, "Session expired")
       /\ \A k \in DOMAIN SESSIONS' \ DOMAIN SESSIONS :
            k \notin issuedTokens /\ resp'.op = "login"]_vars

\* C26 witness: two sessions of different customers were stored; a validation
\* of token 1 found it expired and removed it, and the session of token 2 is
\* stored as it was created.
C26_Witness ==
    /\ issuedTokens = {1, 2}
    /\ DOMAIN SESSIONS = {2}
    /\ resp.tok = 1 /\ resp.res = Err(401, "Session expired")
    /\ SESSIONS[2].customer_id = 8
    /\ SESSIONS[2].expires_at = touchedAt[2] + SESSION_TTL_SECONDS
    /\ touchedAt[2] > touchedAt[1]

\* C20: once a caller's explicit logout of a token has been answered, the
\* token is absent from the session store (and so fails validation).
C20_LogoutRemoves ==
    resp.op = "logout" => resp.tok \notin DOMAIN SESSIONS

(***************************************************************************)
(* Pricing fan-out: POST /vf/prices                                        *)
(***************************************************************************)
ProductIdValues == {1, 2}
PriceValues == {10, 20}

\* The get_final_price tasks of the request, one per element of productIds.
Lookups == 1..Len(productIds)

\* str(pid), the key of a product id in the prices and errors maps
str(n) == ToString(n)

\* What get_final_price returns (ok: the "final_price" field, absent for None)
\* or the exception that gather hands back in its place.
POk(v) == [ok |-> TRUE, status |-> 200, val |-> v, detail |-> ""]
PErr(st, d) == [ok |-> FALSE, status |-> st, val |-> Absent, detail |-> d]
PNone == [ok |-> FALSE, status |-> 0, val |-> Absent, detail |-> ""]

\* A process holding one session, live or already past its expiry.
OneSession(e) ==
    /\ SESSION_TTL_SECONDS = DefaultSessionTtl
    /\ SESSIONS = [k \in {1} |-> [customer_id |-> 7, frontend_token |-> 7, expires_at |-> e]]
    /\ issuedTokens = {1}
    /\ awaiting = {}
    /\ resp = NoResp
    /\ evicted = {}
    /\ touchedAt = [k \in {1} |-> e - DefaultSessionTtl]

\* vf_prices up to gather: the session is validated and one get_final_price
\* task per product id is created.
vf_prices ==
    /\ ppc = "start"
    /\ Validate("prices", reqTok)
    /\ IF RequireResult(SESSIONS, reqTok, now).ok
       THEN /\ ppc' = "gather"
            /\ priceResp' = [priceResp EXCEPT !.customerId = SESSIONS[reqTok].customer_id]
       ELSE /\ ppc' = "done"
            /\ priceResp' = [priceResp EXCEPT
                                !.res = PErr(401, RequireResult(SESSIONS, reqTok, now).detail)]
    /\ UNCHANGED <<now, SESSION_TTL_SECONDS, issuedTokens, awaiting, reqTok, productIds,
                   results, doneOrder, adminVars, notPrices>>

\* Lookup i starts: get_final_price first awaits get_admin_token().
get_final_price(i) ==
    /\ ppc = "gather"
    /\ i \in Lookups
    /\ get_admin_token(i)

\* get_admin_token() has returned to lookup i: the price GET is issued with the
\* token, or the exception ends the lookup.
get_final_price_get(i) ==
    /\ ppc = "gather"
    /\ i \in Lookups
    /\ pc[i] = "tokdone"
    /\ IF tokres[i].ok
       THEN /\ pc' = [pc EXCEPT ![i] = "getting"]
            /\ UNCHANGED <<results, doneOrder>>
       ELSE /\ pc' = [pc EXCEPT ![i] = "ldone"]
            /\ results' = [results EXCEPT ![i] = PErr(tokres[i].status, tokres[i].detail)]
            /\ doneOrder' = Append(doneOrder, i)
    /\ UNCHANGED <<now, credsOk, ADMIN_TOKEN, ADMIN_TOKEN_EXPIRES_AT, lockHolder,
                   lockWaiters, tokres, reqId, authCalls, nCalls, staleEntry, issued,
                   lastOkAt, lastExpiresIn, sessVars, reqTok, productIds, ppc, priceResp, notPrices>>

\* What the price endpoint may answer.
PriceResponses ==
    [status : {200, 500}, final_price : {Absent} \cup {Field(v) : v \in PriceValues}]

\* The price GET of lookup i returns: nc_get_json raises on status >= 400,
\* otherwise the lookup returns data.get("final_price").
get_final_price_return(i) ==
    /\ ppc = "gather"
    /\ i \in Lookups
    /\ pc[i] = "getting"
    /\ \E r \in PriceResponses :
         results' = [results EXCEPT ![i] =
                        IF r.status >= 400 THEN PErr(502, "nopCommerce GET failed")
                        ELSE POk(r.final_price)]
    /\ pc' = [pc EXCEPT ![i] = "ldone"]
    /\ doneOrder' = Append(doneOrder, i)
    /\ UNCHANGED <<now, credsOk, ADMIN_TOKEN, ADMIN_TOKEN_EXPIRES_AT, lockHolder,
                   lockWaiters, tokres, reqId, authCalls, nCalls, staleEntry, issued,
                   lastOkAt, lastExpiresIn, sessVars, reqTok, productIds, ppc, priceResp, notPrices>>

\* asyncio.gather(*tasks, return_exceptions=True) never raises a task's exception.
GatherRaises_Propagate == \E i \in Lookups : pc[i] = "ldone" /\ ~results[i].ok
GatherRaises == FALSE

\* The index whose assignment to key k of a map is the last one in the zip loop.
LastIndex(ids, res, k, wantOk) ==
    CHOOSE i \in 1..Len(ids) :
        /\ str(ids[i]) = k /\ res[i].ok = wantOk
        /\ \A j \in 1..Len(ids) : (str(ids[j]) = k /\ res[j].ok = wantOk) => j <= i

\* "prices[str(pid)] = res" for every result that is no exception
PriceMap_ByPosition(ids, res) ==
    [k \in {str(i) : i \in {j \in 1..Len(ids) : res[j].ok}} |->
        res[CHOOSE i \in 1..Len(ids) : str(i) = k].val]
PriceMap(ids, res) ==
    [k \in {str(ids[i]) : i \in {j \in 1..Len(ids) : res[j].ok}} |->
        res[LastIndex(ids, res, k, TRUE)].val]

\* "errors[str(pid)] = str(res)" for every result that is an exception
ErrorMap(ids, res) ==
    [k \in {str(ids[i]) : i \in {j \in 1..Len(ids) : ~res[j].ok}} |->
        res[LastIndex(ids, res, k, FALSE)].detail]

\* gather returns once every lookup has completed; the handler sorts the
\* results into prices and errors and responds.
vf_prices_respond ==
    /\ ppc = "gather"
    /\ GatherRaises \/ \A i \in Lookups : pc[i] = "ldone"
    /\ ppc' = "done"
    /\ priceResp' =
         IF GatherRaises
         THEN [priceResp EXCEPT !.res = PErr(500, "Internal Server Error")]
         ELSE [priceResp EXCEPT !.res = POk(Absent),
                                !.prices = PriceMap(productIds, results),
                                !.errors = ErrorMap(productIds, results)]
    /\ UNCHANGED <<now, adminVars, sessVars, reqTok, productIds, results, doneOrder,
                   notPrices>>

\* A request body: a session token and 1..MaxIds product ids, repeats allowed.
InitPrices ==
    /\ now = 0
    /\ credsOk \in BOOLEAN
    /\ AdminFresh
    /\ \E e \in {-1, DefaultSessionTtl} : OneSession(e)
    /\ reqTok \in {1, 2}
    /\ productIds \in UNION {[1..n -> ProductIdValues] : n \in 1..MaxIds}
    /\ ppc = "start"
    /\ results = [i \in 1..Len(productIds) |-> PNone]
    /\ priceResp = NoPriceResp
    /\ doneOrder = <<>>
    /\ OrderUnused
    /\ CartUnused
    /\ WishUnused
    /\ RmaUnused
    /\ ClientUnused
    /\ rmaDone = <<>>

NextPrices ==
    \/ vf_prices
    \/ \E i \in Tasks : get_final_price(i)
    \/ \E i \in Tasks : AdminResume(i)
    \/ \E i \in Tasks : AdminPostReturn(i)
    \/ \E i \in Tasks : get_final_price_get(i)
    \/ \E i \in Tasks : get_final_price_return(i)
    \/ vf_prices_respond

SpecPrices == InitPrices /\ [][NextPrices]_vars

(***************************************************************************)
(* Claims about the pricing fan-out (SpecPrices).                          *)
(***************************************************************************)
InputKeys == {str(productIds[i]) : i \in Lookups}

\* C5: for every answered get-prices request the key sets of prices and errors
\* are disjoint and their union is exactly the set of input product ids.
C5_Partition ==
    (ppc = "done" /\ priceResp.res.ok) =>
        /\ DOMAIN priceResp.prices \cap DOMAIN priceResp.errors = {}
        /\ DOMAIN priceResp.prices \cup DOMAIN priceResp.errors = InputKeys

\* C6: a failed lookup never aborts or suppresses the others.  When a request
\* with a valid session is answered, every lookup has run to completion, the
\* request has succeeded, every id with a failed lookup is in errors with the
\* message of a failed lookup for that id, and every id with a succeeded lookup
\* is in prices with the value a succeeded lookup for that id returned.
C6_FanOutIsolation ==
    (ppc = "done" /\ resp.res.ok) =>
        /\ priceResp.res.ok
        /\ \A i \in Lookups : pc[i] = "ldone"
        /\ \A i \in Lookups :
              LET k == str(productIds[i])
                  same == {j \in Lookups : productIds[j] = productIds[i]}
              IN IF results[i].ok
                 THEN /\ k \in DOMAIN priceResp.prices
                      /\ priceResp.prices[k] \in {results[j].val : j \in {x \in same : results[x].ok}}
                 ELSE /\ k \in DOMAIN priceResp.errors
                      /\ priceResp.errors[k] # ""
                      /\ priceResp.errors[k] \in
                             {results[j].detail : j \in {x \in same : ~results[x].ok}}

\* C6 witness: of two lookups for different ids the second completed first and
\* failed, the first completed afterwards and succeeded, and the response
\* carries the price of the one and the error of the other.
C6_Witness ==
    /\ ppc = "done" /\ priceResp.res.ok
    /\ productIds = <<1, 2>>
    /\ doneOrder = <<2, 1>>
    /\ ~results[2].ok /\ results[1] = POk(Field(20))
    /\ priceResp.prices = [k \in {"1"} |-> Field(20)]
    /\ DOMAIN priceResp.errors = {"2"}

(***************************************************************************)
(* Order reconciliation: POST /vf/orders/details                           *)
(*                                                                         *)
(* One request.  Its coroutine is task OrderTask of the admin-token        *)
(* component; every backend read first awaits get_admin_token().  Tracking *)
(* numbers, shipped dates and the order-level rollups are carried through  *)
(* by the code without entering any quantity or status and are left out.   *)
(***************************************************************************)
MaxShipments == 2

OrderTask == 1
OrderId == 55
DeliveredAt == "2024-05-01T10:00:00"

\* Python truthiness of an integer id and of a timestamp string / None.
TruthyId(n) == n # 0
TruthyDate(d) == d # ""

\* dict.setdefault(k, []).append(e)
MapAppend_Overwrite(m, k, e) ==
    [x \in DOMAIN m \cup {k} |-> IF x = k THEN <<e>> ELSE m[x]]
MapAppend(m, k, e) ==
    [x \in DOMAIN m \cup {k} |->
        IF x = k THEN Append(IF k \in DOMAIN m THEN m[k] ELSE <<>>, e) ELSE m[x]]

\* dict.get(k, [])
MapGet(m, k) == IF k \in DOMAIN m THEN m[k] ELSE <<>>

EmptyMap == [x \in {} |-> <<>>]

\* i.get("quantity", 0)
QuantityOf(i) == IF i.quantity.has THEN i.quantity.val ELSE 0

\* The hydrated record of shipment s with the shipment items the backend returned.
HydratedShipment(s, items) ==
    [shipmentId |-> s.id,
     deliveryDate |-> s.delivery_date_utc,
     items |-> [j \in 1..Len(items) |->
                   [orderItemId |-> items[j].order_item_id,
                    quantity |-> QuantityOf(items[j])]]]

\* The inner loop of build_order_item_fulfillment_map over the items of s.
RECURSIVE AddShipmentItems(_, _, _)
AddShipmentItems(m, s, items) ==
    IF items = <<>> THEN m
    ELSE LET item == Head(items)
         IN AddShipmentItems(
                IF ~item.orderItemId.has THEN m
                ELSE MapAppend(m, item.orderItemId.val,
                               [shipmentId |-> s.shipmentId,
                                quantity |-> item.quantity,
                                deliveryDate |-> s.deliveryDate]),
                s, Tail(items))

RECURSIVE AddShipments(_, _)
AddShipments(m, hs) ==
    IF hs = <<>> THEN m
    ELSE AddShipments(AddShipmentItems(m, Head(hs), Head(hs).items), Tail(hs))

build_order_item_fulfillment_map(hydrated_shipments) ==
    AddShipments(EmptyMap, hydrated_shipments)

\* build_order_item_rma_map: RMAs without an order item id are skipped.
RECURSIVE AddRmas(_, _)
AddRmas(m, rs) ==
    IF rs = <<>> THEN m
    ELSE AddRmas(IF ~TruthyId(Head(rs).order_item_id) THEN m
                 ELSE MapAppend(m, Head(rs).order_item_id,
                                [rmaId |-> Head(rs).id, quantity |-> Head(rs).quantity]),
                 Tail(rs))

build_order_item_rma_map(rmas) == AddRmas(EmptyMap, rmas)

\* sum(s.get("quantity", 0) for s in shipments)
RECURSIVE SumQuantity(_)
SumQuantity(entries) ==
    IF entries = <<>> THEN 0 ELSE Head(entries).quantity + SumQuantity(Tail(entries))

\* The status of a line from its ordered and shipped quantity and its
\* fulfillment entries.
OrderStatus_PartialInclusive(ordered_qty, shipped_qty, entries) ==
    IF shipped_qty = 0 THEN "unshipped"
    ELSE IF shipped_qty <= ordered_qty THEN "partially_shipped"
    ELSE IF entries # <<>> /\ \A k \in 1..Len(entries) : TruthyDate(entries[k].deliveryDate)
    THEN "delivered"
    ELSE "shipped"
OrderStatus(ordered_qty, shipped_qty, entries) ==
    IF shipped_qty = 0 THEN "unshipped"
    ELSE IF shipped_qty < ordered_qty THEN "partially_shipped"
    ELSE IF entries # <<>> /\ \A k \in 1..Len(entries) : TruthyDate(entries[k].deliveryDate)
    THEN "delivered"
    ELSE "shipped"

\* One element of normalized_items.
NormalizedItem(item, fulfillment_map, rma_map) ==
    LET entries == MapGet(fulfillment_map, item.id)
        shipped_qty == SumQuantity(entries)
    IN [orderItemId |-> item.id,
        orderedQty |-> item.quantity,
        shippedQty |-> shipped_qty,
        status |-> OrderStatus(item.quantity, shipped_qty, entries),
        shipments |-> entries,
        rmas |-> MapGet(rma_map, item.id)]

NormalizedItems(order_items, hydrated_shipments, rmas) ==
    [k \in 1..Len(order_items) |->
        NormalizedItem(order_items[k],
                       build_order_item_fulfillment_map(hydrated_shipments),
                       build_order_item_rma_map(rmas))]

\* The request ends with an HTTPException.
OrderFail_PartialView(st, d) ==
    /\ opc' = "done"
    /\ orderResp' = [res |-> Ok(OrderId), items |-> NormalizedItems(orderData, hydrated, <<>>)]
OrderFail(st, d) ==
    /\ opc' = "done"
    /\ orderResp' = [orderResp EXCEPT !.res = Err(st, d)]

\* vf_order_details up to its first await: the session is validated and the
\* frontend order is requested with the session's frontend token.
vf_order_details ==
    /\ opc = "start"
    /\ Validate("order", reqTok)
    /\ IF RequireResult(SESSIONS, reqTok, now).ok
       THEN /\ opc' = "order_get"
            /\ UNCHANGED orderResp
       ELSE OrderFail(401, RequireResult(SESSIONS, reqTok, now).detail)
    /\ UNCHANGED <<now, SESSION_TTL_SECONDS, issuedTokens, awaiting, reqTok, adminVars,
                   orderData, shipments, cur, rawItems, hydrated, rmaAnswer, notOrder>>

\* The lines of a frontend order: the order item id and the ordered quantity.
OrderLine(i, q) == [id |-> i, quantity |-> q]
OrderItemLists ==
    {<<OrderLine(1, 2), OrderLine(2, 1)>>, <<OrderLine(1, 3)>>}

\* What the frontend order endpoint may answer.
OrderResponses ==
    [status : {200, 404}, id : {0, OrderId}, items : OrderItemLists]

\* The frontend order has arrived: nc_get_frontend_json raises on status >= 400,
\* an order without id is refused, otherwise nc_get_hydrated_shipments_for_order
\* starts by asking for the order's shipments.
od_order_return ==
    /\ opc = "order_get"
    /\ \E r \in OrderResponses :
         IF r.status >= 400 THEN
             /\ OrderFail(502, "nopCommerce frontend GET failed")
             /\ UNCHANGED orderData
         ELSE IF ~TruthyId(r.id) THEN
             /\ OrderFail(500, "Order ID not found")
             /\ UNCHANGED orderData
         ELSE
             /\ opc' = "ship_tok"
             /\ orderData' = r.items
             /\ UNCHANGED orderResp
    /\ UNCHANGED <<now, adminVars, sessVars, reqTok, shipments, cur, rawItems, hydrated,
                   rmaAnswer, notOrder>>

\* The positions at which the request is about to call, or is inside,
\* get_admin_token(), and the backend read that follows each.
TokenPhases == {"ship_tok", "items_tok", "rma_tok"}
AfterToken(p) ==
    IF p = "ship_tok" THEN "ship_get"
    ELSE IF p = "items_tok" THEN "items_get"
    ELSE "rma_get"

\* nc_get_shipments_by_order_id, nc_get_shipment_items and
\* nc_get_rmas_by_order_id all begin with "token = await get_admin_token()".
od_get_token ==
    /\ opc \in TokenPhases
    /\ get_admin_token(OrderTask)

\* get_admin_token() has returned: the read is issued with the token, or the
\* exception ends the request.
od_token_return ==
    /\ opc \in TokenPhases
    /\ pc[OrderTask] = "tokdone"
    /\ IF tokres[OrderTask].ok
       THEN /\ opc' = AfterToken(opc)
            /\ UNCHANGED orderResp
       ELSE OrderFail(tokres[OrderTask].status, tokres[OrderTask].detail)
    /\ pc' = [pc EXCEPT ![OrderTask] = "idle"]
    /\ tokres' = [tokres EXCEPT ![OrderTask] = NoResult]
    /\ staleEntry' = [staleEntry EXCEPT ![OrderTask] = FALSE]
    /\ issued' = [issued EXCEPT ![OrderTask] = FALSE]
    /\ UNCHANGED <<now, credsOk, ADMIN_TOKEN, ADMIN_TOKEN_EXPIRES_AT, lockHolder,
                   lockWaiters, reqId, authCalls, nCalls, lastOkAt, lastExpiresIn, sessVars, reqTok,
                   orderData, shipments, cur, rawItems, hydrated, rmaAnswer, notOrder>>

\* What the backend may answer for the shipments of the order: up to
\* MaxShipments shipments, each with or without an id and a delivery date.
ShipmentLists ==
    UNION {{[i \in 1..n |-> [id |-> IF withId[i] THEN 10 + i ELSE 0,
                             delivery_date_utc |-> dates[i]]] :
               withId \in [1..n -> BOOLEAN], dates \in [1..n -> {"", DeliveredAt}]} :
           n \in 0..MaxShipments}

ShipmentResponses ==
    {[status |-> 500, list |-> <<>>]} \cup {[status |-> 200, list |-> l] : l \in ShipmentLists}

\* The shipments have arrived; "for s in shipments or []" starts.
od_shipments_return ==
    /\ opc = "ship_get"
    /\ \E r \in ShipmentResponses :
         IF r.status >= 400 THEN
             /\ OrderFail(502, "nopCommerce GET failed")
             /\ UNCHANGED <<shipments, cur, rawItems>>
         ELSE
             /\ opc' = "loop"
             /\ shipments' = r.list
             /\ cur' = 1
             /\ rawItems' = [i \in 1..Len(r.list) |-> <<>>]
             /\ UNCHANGED orderResp
    /\ UNCHANGED <<now, adminVars, sessVars, reqTok, orderData, hydrated, rmaAnswer, notOrder>>

\* The head of the hydration loop: a shipment without id is skipped, the items
\* of any other are fetched; after the last shipment the RMAs are fetched.
od_next_shipment ==
    /\ opc = "loop"
    /\ IF cur > Len(shipments) THEN opc' = "rma_tok" /\ UNCHANGED cur
       ELSE IF ~TruthyId(shipments[cur].id) THEN cur' = cur + 1 /\ UNCHANGED opc
       ELSE opc' = "items_tok" /\ UNCHANGED cur
    /\ UNCHANGED <<now, adminVars, sessVars, reqTok, orderData, shipments, rawItems,
                   hydrated, orderResp, rmaAnswer, notOrder>>

\* Shipment items as the backend returns them: the order line they reference
\* (None for absent) and a quantity (absent for a missing field).
ShipmentItem(ref, q) == [order_item_id |-> ref, quantity |-> q]
ShipmentItemLists ==
    {<<>>,
     <<ShipmentItem(Field(1), Field(1))>>,
     <<ShipmentItem(Field(1), Field(2))>>,
     <<ShipmentItem(Field(1), Field(1)), ShipmentItem(Field(2), Field(1))>>,
     <<ShipmentItem(Field(1), Field(1)), ShipmentItem(Field(1), Field(1))>>,
     <<ShipmentItem(Absent, Field(1)), ShipmentItem(Field(2), Absent)>>}

ShipmentItemResponses ==
    {[status |-> 500, list |-> <<>>]} \cup
    {[status |-> 200, list |-> l] : l \in ShipmentItemLists}

\* The items of shipment cur have arrived and the shipment is appended to hydrated.
od_items_return ==
    /\ opc = "items_get"
    /\ \E r \in ShipmentItemResponses :
         IF r.status >= 400 THEN
             /\ OrderFail(502, "nopCommerce GET failed")
             /\ UNCHANGED <<cur, rawItems, hydrated>>
         ELSE
             /\ opc' = "loop"
             /\ rawItems' = [rawItems EXCEPT ![cur] = r.list]
             /\ hydrated' = Append(hydrated, HydratedShipment(shipments[cur], r.list))
             /\ cur' = cur + 1
             /\ UNCHANGED orderResp
    /\ UNCHANGED <<now, adminVars, sessVars, reqTok, orderData, shipments, rmaAnswer, notOrder>>

\* What the return-request search may answer: a status, and a body that is
\* empty, not JSON, or JSON whose "items" are the return requests.
RmaItems ==
    {<<>>, <<[id |-> 90, order_item_id |-> 1, quantity |-> 1],
             [id |-> 91, order_item_id |-> 0, quantity |-> 1]>>}
RmaResponses ==
    [status : {200, 204, 500}, body : {"json"}, items : RmaItems]
    \cup [status : {200, 500}, body : {"empty", "text"}, items : {<<>>}]

\* nc_get_rmas_by_order_id after its call has returned: "if r.status_code !=
\* 200 or not r.content: return []", "except ValueError: return []", else
\* the items of the body.
nc_get_rmas_by_order_id_AnyStatus(r) == r.items
nc_get_rmas_by_order_id(r) ==
    IF r.status # 200 \/ r.body = "empty" THEN <<>>
    ELSE IF r.body # "json" THEN <<>>
    ELSE r.items

\* The RMAs have arrived: the order lines are normalized and the handler responds.
od_rmas_return ==
    /\ opc = "rma_get"
    /\ \E r \in RmaResponses :
         /\ rmaAnswer' = r
         /\ orderResp' = [res |-> Ok(OrderId),
                          items |-> NormalizedItems(orderData, hydrated,
                                                    nc_get_rmas_by_order_id(r))]
    /\ opc' = "done"
    /\ UNCHANGED <<now, adminVars, sessVars, reqTok, orderData, shipments, cur, rawItems,
                   hydrated, notOrder>>

\* A request body with a session token, to a process holding one session.
InitOrder ==
    /\ now = 0
    /\ credsOk \in BOOLEAN
    /\ AdminFresh
    /\ \E e \in {-1, DefaultSessionTtl} : OneSession(e)
    /\ reqTok \in {1, 2}
    /\ PricesUnused
    /\ opc = "start"
    /\ orderData = <<>>
    /\ shipments = <<>>
    /\ cur = 0
    /\ rawItems = <<>>
    /\ hydrated = <<>>
    /\ orderResp = NoOrderResp
    /\ rmaAnswer = NoAnswer
    /\ CartUnused
    /\ WishUnused
    /\ RmaUnused
    /\ ClientUnused
    /\ rmaDone = <<>>

NextOrder ==
    \/ vf_order_details
    \/ od_order_return
    \/ od_get_token
    \/ AdminPostReturn(OrderTask)
    \/ od_token_return
    \/ od_shipments_return
    \/ od_next_shipment
    \/ od_items_return
    \/ od_rmas_return

SpecOrder == InitOrder /\ [][NextOrder]_vars

(***************************************************************************)
(* Claims about the order reconciliation (SpecOrder).                      *)
(***************************************************************************)
Answered == opc = "done" /\ orderResp.res.ok

\* The shipment line items of the order that reference order line id, as
\* (shipment, item) positions in what the backend returned.
Referencing(id) ==
    {p \in UNION {{<<i, j>> : j \in 1..Len(rawItems[i])} : i \in 1..Len(rawItems)} :
        rawItems[p[1]][p[2]].order_item_id = Field(id)}

RECURSIVE SumOver(_)
SumOver(P) ==
    IF P = {} THEN 0
    ELSE LET p == CHOOSE x \in P : TRUE
         IN (IF rawItems[p[1]][p[2]].quantity.has THEN rawItems[p[1]][p[2]].quantity.val ELSE 0)
            + SumOver(P \ {p})

\* The shipments that contribute to order line id.
Contributing(id) == {p[1] : p \in Referencing(id)}
AllDelivered(id) == \A i \in Contributing(id) : shipments[i].delivery_date_utc # ""

\* C7: in every answered order-details request each line's status follows from
\* its ordered quantity, its shipped quantity and the delivery timestamps of
\* the shipments contributing to it: unshipped when shipped = 0, otherwise
\* partially_shipped when shipped < ordered, otherwise delivered when every
\* contributing shipment has a delivery timestamp and shipped when not; an
\* over-shipped line is never partially_shipped.
C7_StatusFunction ==
    Answered =>
        \A k \in 1..Len(orderResp.items) :
            LET it == orderResp.items[k]
            IN /\ it.shippedQty = 0 => it.status = "unshipped"
               /\ (0 < it.shippedQty /\ it.shippedQty < it.orderedQty)
                     => it.status = "partially_shipped"
               /\ (it.shippedQty # 0 /\ it.shippedQty >= it.orderedQty
                                     /\ AllDelivered(it.orderItemId))
                     => it.status = "delivered"
               /\ (it.shippedQty # 0 /\ it.shippedQty >= it.orderedQty
                                     /\ ~AllDelivered(it.orderItemId))
                     => it.status = "shipped"
               /\ it.shippedQty > it.orderedQty => it.status # "partially_shipped"

\* C7 witness: one answered request shows a line shipped exactly in full by two
\* shipments of which one is undelivered (shipped), next to a line shipped in
\* full by a delivered shipment (delivered).
C7_Witness ==
    /\ Answered
    /\ Len(orderResp.items) = 2
    /\ orderResp.items[1].orderedQty = 2 /\ orderResp.items[1].shippedQty = 2
    /\ Cardinality(Contributing(1)) = 2 /\ ~AllDelivered(1)
    /\ orderResp.items[1].status = "shipped"
    /\ orderResp.items[2].shippedQty = 1 /\ orderResp.items[2].status = "delivered"

\* C8: in every answered order-details request the shipped quantity of each
\* line is the sum of the quantities of the shipment line items referencing it,
\* over all shipments returned for the order.
C8_ShippedIsSum ==
    Answered =>
        \A k \in 1..Len(orderResp.items) :
            orderResp.items[k].shippedQty = SumOver(Referencing(orderResp.items[k].orderItemId))

\* C8 witness: line 1 is referenced twice in the first shipment and once in the
\* second, and its shipped quantity is the sum over both shipments.
C8_Witness ==
    /\ Answered
    /\ Len(shipments) = 2
    /\ Cardinality({p \in Referencing(1) : p[1] = 1}) = 2
    /\ Cardinality({p \in Referencing(1) : p[1] = 2}) = 1
    /\ orderResp.items[1].shippedQty = 4

\* The positions of nc_get_hydrated_shipments_for_order: fetching the
\* shipments or the items of one, the admin token of either included.
ShipmentFetch == {"ship_tok", "ship_get", "items_tok", "items_get"}

\* C19: a request that ends while fetching the shipments or the items of a
\* shipment ends with an error and no order view; a response once given does
\* not change; an error response never carries items; and an order view is
\* returned only when the items of every shipment with an id were fetched.
C19_FetchFailureIsFatal ==
    /\ [][ /\ (opc \in ShipmentFetch /\ opc' = "done")
                => (~orderResp'.res.ok /\ orderResp'.items = <<>>)
           /\ opc = "done" => (opc' = "done" /\ orderResp' = orderResp)
         ]_vars
    /\ []((opc = "done" /\ ~orderResp.res.ok) => orderResp.items = <<>>)
    /\ [](Answered =>
             /\ cur > Len(shipments)
             /\ Len(hydrated) = Cardinality({i \in 1..Len(shipments) : shipments[i].id # 0})
             /\ \A h \in 1..Len(hydrated) :
                   \E i \in 1..Len(shipments) :
                       /\ hydrated[h].shipmentId = shipments[i].id
                       /\ Len(hydrated[h].items) = Len(rawItems[i]))

\* C19 witness: the items of the first shipment were fetched, the fetch for
\* the second failed, and the request failed without a view.
C19_Witness ==
    /\ opc = "done"
    /\ Len(shipments) = 2 /\ Len(hydrated) = 1 /\ cur = 2
    /\ hydrated[1].items # <<>>
    /\ orderResp = [res |-> Err(502, "nopCommerce GET failed"), items |-> <<>>]

\* The return-request search has answered, and the answer is a failed
\* listing: a status other than 200, an empty body, or a body that is not JSON.
ListingAnswered == rmaAnswer # NoAnswer
ListingFailed ==
    ListingAnswered /\ (rmaAnswer.status # 200 \/ rmaAnswer.body \in {"empty", "text"})

\* C24: once the return-request search has answered, the order details are
\* returned with one entry per order line; when the answer is a failed listing,
\* whatever its body holds, the RMA list of every line is empty.
C24_ListingDegrades ==
    /\ ListingAnswered =>
          /\ opc = "done"
          /\ orderResp.res = Ok(OrderId)
          /\ Len(orderResp.items) = Len(orderData)
          /\ \A k \in 1..Len(orderData) : orderResp.items[k].orderItemId = orderData[k].id
    /\ ListingFailed =>
          \A k \in 1..Len(orderResp.items) : orderResp.items[k].rmas = <<>>

\* C24 witness: the search answered 500 with a body that lists a return
\* request of line 1, and the details of the two-line order were returned
\* with line 1 shipped.
C24_Witness ==
    /\ rmaAnswer.status = 500 /\ rmaAnswer.items # <<>>
    /\ orderResp.res.ok
    /\ Len(orderResp.items) = 2
    /\ orderResp.items[1].orderItemId = 1
    /\ orderResp.items[1].shippedQty > 0

(***************************************************************************)
(* Cart update: POST /vf/cart/update                                       *)
(*                                                                         *)
(* NumUpdates concurrent requests of one customer.  Strings that the code  *)
(* builds and the store reads back are sequences of characters.            *)
(***************************************************************************)
NumUpdates == 2

CartReqs == 1..NumUpdates

\* The cart item ids of the customer's two cart lines
LineA == 1
LineB == 12

DigitChars == <<"0", "1", "2", "3", "4", "5", "6", "7", "8", "9">>

\* str(n) for an integer n
RECURSIVE Digits(_)
Digits(n) == IF n < 10 THEN <<DigitChars[n + 1]>>
             ELSE Digits(n \div 10) \o <<DigitChars[(n % 10) + 1]>>
Decimal(n) == IF n < 0 THEN <<"-">> \o Digits(-n) ELSE Digits(n)

\* ",".join(ids)
RECURSIVE Join(_)
Join(ids) ==
    IF ids = <<>> THEN <<>>
    ELSE IF Len(ids) = 1 THEN Head(ids)
    ELSE Head(ids) \o <<",">> \o Join(Tail(ids))

\* The keys of the UpdateCart form
ItemQuantityKey(cid) ==
    <<"i", "t", "e", "m", "q", "u", "a", "n", "t", "i", "t", "y">> \o Decimal(cid)
UpdateIdsKey ==
    <<"u", "p", "d", "a", "t", "e", "c", "a", "r", "t", "i", "t", "e", "m", "i", "d", "s">>
RemoveKey == <<"r", "e", "m", "o", "v", "e", "f", "r", "o", "m", "c", "a", "r", "t">>

\* build_updatecart_payload: the loop over cart_items ...
RECURSIVE PayloadLines(_, _, _, _)
PayloadLines(p, items, target_id, new_qty) ==
    IF items = <<>> THEN p
    ELSE LET item == Head(items)
             cid == item.cartItemId
             qty == IF cid = target_id THEN new_qty ELSE item.quantity
         IN PayloadLines([k \in DOMAIN p \cup {ItemQuantityKey(cid)} |->
                             IF k = ItemQuantityKey(cid) THEN Decimal(qty) ELSE p[k]],
                         Tail(items), target_id, new_qty)

\* ... and the two closing assignments.
build_updatecart_payload_TargetOnly(items, target_id, new_qty) ==
    LET tgt == SelectSeq(items, LAMBDA i : i.cartItemId = target_id)
        p == PayloadLines(EmptyMap, tgt, target_id, new_qty)
        ids == [i \in 1..Len(tgt) |-> Decimal(tgt[i].cartItemId)]
    IN [k \in DOMAIN p \cup {UpdateIdsKey, RemoveKey} |->
           IF k = UpdateIdsKey THEN Join(ids)
           ELSE IF k = RemoveKey THEN <<>>
           ELSE p[k]]
build_updatecart_payload(items, target_id, new_qty) ==
    LET p == PayloadLines(EmptyMap, items, target_id, new_qty)
        ids == [i \in 1..Len(items) |-> Decimal(items[i].cartItemId)]
    IN [k \in DOMAIN p \cup {UpdateIdsKey, RemoveKey} |->
           IF k = UpdateIdsKey THEN Join(ids)
           ELSE IF k = RemoveKey THEN <<>>
           ELSE p[k]]

\* The store reading the form back: the comma-separated ids ...
RECURSIVE SplitAcc(_, _, _)
SplitAcc(chars, tok, out) ==
    IF chars = <<>> THEN Append(out, tok)
    ELSE IF Head(chars) = "," THEN SplitAcc(Tail(chars), <<>>, Append(out, tok))
    ELSE SplitAcc(Tail(chars), Append(tok, Head(chars)), out)
Split(chars) == IF chars = <<>> THEN <<>> ELSE SplitAcc(chars, <<>>, <<>>)

\* ... and a decimal number.
DigitValue(c) == CHOOSE d \in 0..9 : DigitChars[d + 1] = c
RECURSIVE ParseDigits(_, _)
ParseDigits(chars, acc) ==
    IF chars = <<>> THEN acc
    ELSE ParseDigits(Tail(chars), 10 * acc + DigitValue(Head(chars)))
ParseInt(chars) ==
    IF chars # <<>> /\ Head(chars) = "-" THEN 0 - ParseDigits(Tail(chars), 0)
    ELSE ParseDigits(chars, 0)

ListedIds(p) == {ParseInt(Split(p[UpdateIdsKey])[i]) : i \in 1..Len(Split(p[UpdateIdsKey]))}

\* The store applying an UpdateCart form: every cart line whose id the form
\* lists takes the quantity the form gives for it.
UpdateCart(c, p) ==
    [i \in 1..Len(c) |->
        IF c[i].id \in ListedIds(p) /\ ItemQuantityKey(c[i].id) \in DOMAIN p
        THEN [c[i] EXCEPT !.quantity = ParseInt(p[ItemQuantityKey(c[i].id)])]
        ELSE c[i]]

\* "except Exception as e: raise HTTPException(status_code=500, detail=str(e))"
UpdateFail(r, d) ==
    /\ cpc' = [cpc EXCEPT ![r] = "done"]
    /\ updResp' = [updResp EXCEPT ![r] = Err(500, d)]

\* vf_cart_update up to its first await: the session is validated and the
\* cart is requested.
vf_cart_update(r) ==
    /\ cpc[r] = "start"
    /\ Validate("update", updBody[r].sessionToken)
    /\ IF RequireResult(SESSIONS, updBody[r].sessionToken, now).ok
       THEN /\ cpc' = [cpc EXCEPT ![r] = "reading"]
            /\ UNCHANGED updResp
       ELSE UpdateFail(r, RequireResult(SESSIONS, updBody[r].sessionToken, now).detail)
    /\ UNCHANGED <<now, SESSION_TTL_SECONDS, issuedTokens, awaiting, cart, updBody,
                   cart_items, payload, notCart>>

\* The cart has arrived: a failed read or an empty body.items ends the
\* request, otherwise the form is built for body.items[0] and posted.
cu_cart_return(r) ==
    /\ cpc[r] = "reading"
    /\ \E status \in {200, 500} :
         IF status >= 400 THEN
             /\ UpdateFail(r, "nopCommerce frontend GET failed")
             /\ UNCHANGED <<cart_items, payload>>
         ELSE IF updBody[r].items = <<>> THEN
             /\ UpdateFail(r, "list index out of range")
             /\ cart_items' = [cart_items EXCEPT ![r] =
                                  [i \in 1..Len(cart) |->
                                      [cartItemId |-> cart[i].id, quantity |-> cart[i].quantity]]]
             /\ UNCHANGED payload
         ELSE
             /\ cart_items' = [cart_items EXCEPT ![r] =
                                  [i \in 1..Len(cart) |->
                                      [cartItemId |-> cart[i].id, quantity |-> cart[i].quantity]]]
             /\ payload' = [payload EXCEPT ![r] =
                               build_updatecart_payload(cart_items'[r],
                                                        updBody[r].items[1].cartItemId,
                                                        updBody[r].items[1].quantity)]
             /\ cpc' = [cpc EXCEPT ![r] = "posting"]
             /\ UNCHANGED updResp
    /\ UNCHANGED <<now, sessVars, cart, updBody, notCart>>

\* The UpdateCart call returns: the store has applied the form and answers, or
\* refuses it with an error status.
cu_post_return(r) ==
    /\ cpc[r] = "posting"
    /\ \E status \in {200, 500} :
         IF status >= 400 THEN
             /\ UpdateFail(r, "nopCommerce update-cart failed")
             /\ UNCHANGED cart
         ELSE
             /\ cart' = UpdateCart(cart, payload[r])
             /\ cpc' = [cpc EXCEPT ![r] = "done"]
             /\ updResp' = [updResp EXCEPT ![r] = Ok(0)]
    /\ UNCHANGED <<now, sessVars, updBody, cart_items, payload, notCart>>

CartLine(i, q) == [id |-> i, quantity |-> q]
InitialCarts == {<<CartLine(LineA, 2), CartLine(LineB, 5)>>, <<CartLine(LineB, 5)>>}

\* UpdateCartBody: a session token and a list of CartUpdateItem
UpdateItem(i, q) == [cartItemId |-> i, quantity |-> q]
UpdateBodies ==
    {[sessionToken |-> 1, items |-> its] :
        its \in {<<>>, <<UpdateItem(LineA, 3)>>, <<UpdateItem(LineB, 7)>>,
                 <<UpdateItem(LineB, 10), UpdateItem(LineA, 3)>>}}
    \cup {[sessionToken |-> 2, items |-> <<UpdateItem(LineA, 3)>>]}

InitCart ==
    /\ now = 0
    /\ credsOk = TRUE
    /\ AdminFresh
    /\ \E e \in {-1, DefaultSessionTtl} : OneSession(e)
    /\ reqTok = 0
    /\ PricesUnused
    /\ OrderUnused
    /\ cart \in InitialCarts
    /\ updBody \in [CartReqs -> UpdateBodies]
    /\ cpc = [r \in CartReqs |-> "start"]
    /\ cart_items = [r \in CartReqs |-> <<>>]
    /\ payload = [r \in CartReqs |-> EmptyMap]
    /\ updResp = [r \in CartReqs |-> NoResult]
    /\ WishUnused
    /\ RmaUnused
    /\ ClientUnused
    /\ rmaDone = <<>>

NextCart ==
    \/ \E r \in CartReqs : vf_cart_update(r)
    \/ \E r \in CartReqs : cu_cart_return(r)
    \/ \E r \in CartReqs : cu_post_return(r)

SpecCart == InitCart /\ [][NextCart]_vars

(***************************************************************************)
(* Claims about the cart update (SpecCart).                                *)
(***************************************************************************)
Submitted(r) == payload[r] # EmptyMap

\* C9: the form a cart update submits describes every line of the cart it
\* fetched exactly once: the ids it lists are the fetched lines in order, its
\* quantity fields are exactly those of the fetched lines, the targeted line
\* carries the new quantity and every other line the quantity read, and
\* nothing is marked for removal.
C9_FullReplacement ==
    \A r \in CartReqs :
        Submitted(r) =>
            LET p == payload[r]
                fetched == cart_items[r]
                target == updBody[r].items[1]
            IN /\ UpdateIdsKey \in DOMAIN p /\ RemoveKey \in DOMAIN p
               /\ [i \in 1..Len(Split(p[UpdateIdsKey])) |-> ParseInt(Split(p[UpdateIdsKey])[i])]
                     = [i \in 1..Len(fetched) |-> fetched[i].cartItemId]
               /\ DOMAIN p \ {UpdateIdsKey, RemoveKey}
                     = {ItemQuantityKey(fetched[i].cartItemId) : i \in 1..Len(fetched)}
               /\ \A i \in 1..Len(fetched) :
                     ParseInt(p[ItemQuantityKey(fetched[i].cartItemId)])
                        = IF fetched[i].cartItemId = target.cartItemId
                          THEN target.quantity ELSE fetched[i].quantity
               /\ p[RemoveKey] = <<>>

\* C9 witness: the cart {A: 2, B: 5} was fetched, A is updated to 3, and the
\* submitted form gives A: 3 and B: 5.
C9_Witness ==
    \E r \in CartReqs :
        /\ cpc[r] = "posting"
        /\ cart_items[r] = <<UpdateItem(LineA, 2), UpdateItem(LineB, 5)>>
        /\ updBody[r].items = <<UpdateItem(LineA, 3)>>
        /\ payload[r][ItemQuantityKey(LineA)] = <<"3">>
        /\ payload[r][ItemQuantityKey(LineB)] = <<"5">>
        /\ payload[r][UpdateIdsKey] = <<"1", ",", "1", "2">>

\* The line a request targets and whether the request has succeeded.
TargetOf(r) == updBody[r].items[1]
Succeeded(r) == cpc[r] = "done" /\ updResp[r].ok
CartIds == {cart[i].id : i \in 1..Len(cart)}
QuantityIn(c, id) == c[CHOOSE i \in 1..Len(c) : c[i].id = id].quantity

\* C10: when the cart updates of the customer have all completed, of which two
\* succeeded on different lines of the cart that no other request targeted,
\* each of the two lines has the quantity its request set.
C10_NoClobber ==
    \A r1, r2 \in CartReqs :
        ( /\ \A r \in CartReqs : cpc[r] = "done"
          /\ Succeeded(r1) /\ Succeeded(r2)
          /\ TargetOf(r1).cartItemId # TargetOf(r2).cartItemId
          /\ {TargetOf(r1).cartItemId, TargetOf(r2).cartItemId} \subseteq CartIds
          /\ \A r \in CartReqs \ {r1, r2} :
                updBody[r].items # <<>> =>
                    TargetOf(r).cartItemId \notin {TargetOf(r1).cartItemId,
                                                   TargetOf(r2).cartItemId} )
        => /\ QuantityIn(cart, TargetOf(r1).cartItemId) = TargetOf(r1).quantity
           /\ QuantityIn(cart, TargetOf(r2).cartItemId) = TargetOf(r2).quantity

\* C21: a cart update whose session token is absent or expired ends with the
\* failure require_session_token raised: status 401 and the reason "Invalid
\* session" for a token that is not stored, "Session expired" for one past its
\* expiry.
C21_NotAuthenticated ==
    [][\A r \in CartReqs :
          (cpc[r] = "start" /\ ~RequireResult(SESSIONS, updBody[r].sessionToken, now).ok
             /\ cpc'[r] # "start")
          => /\ cpc'[r] = "done"
             /\ updResp'[r] = RequireResult(SESSIONS, updBody[r].sessionToken, now)
             /\ updResp'[r].status = 401
             /\ updResp'[r].detail \in {"Invalid session", "Session expired"}]_vars

(***************************************************************************)
(* Wishlist sync: POST /vf/wishlist/sync                                   *)
(*                                                                         *)
(* NumSyncs requests of one customer, one after the other, with the cart   *)
(* unchanged in between.  The store's wishlist changes only by the update  *)
(* calls of these requests.                                                *)
(***************************************************************************)
NumSyncs == 2

\* "cart_products = {i['product_id'] for i in cart.get('items', [])}"
cart_products(lines) == {lines[i] : i \in 1..Len(lines)}

\* "wishlist_products = {i.get('product_id') for i in wishlist.get('items', [])}"
wishlist_products_None(items) == {}
wishlist_products(items) == items

\* "to_add = cart_products - wishlist_products"
ToAdd_All(cartIds, wishIds) == cartIds
ToAdd(cartIds, wishIds) == cartIds \ wishIds

\* list(to_add): the ids of a set in some order
Orders(S) ==
    {o \in [1..Cardinality(S) -> S] : \A i, j \in 1..Cardinality(S) : o[i] = o[j] => i = j}

\* The "addtowishlist" field of nc_update_wishlist's payload
AddToWishlist(product_ids) == Join([i \in 1..Len(product_ids) |-> Decimal(product_ids[i])])

\* The store applying an UpdateWishlist call: the listed products are added.
UpdateWishlist(w, field) ==
    w \cup {ParseInt(Split(field)[i]) : i \in 1..Len(Split(field))}

\* The request ends: its outcome is recorded and the next request may start.
SyncEnds(run, res, added, skipped) ==
    /\ wlog' = Append(wlog, [run |-> run, res |-> res, added |-> added, skipped |-> skipped])
    /\ wrun' = NoRun
    /\ wpc' = IF Len(wlog) + 1 < NumSyncs THEN "start" ELSE "done"

\* vf_wishlist_sync up to its first await: the session is validated and the
\* cart is requested.
vf_wishlist_sync ==
    /\ wpc = "start"
    /\ Validate("wsync", reqTok)
    /\ IF RequireResult(SESSIONS, reqTok, now).ok
       THEN /\ wpc' = "cart_get"
            /\ wrun' = [wrun EXCEPT !.sessOk = TRUE]
            /\ UNCHANGED wlog
       ELSE SyncEnds(wrun, Err(401, RequireResult(SESSIONS, reqTok, now).detail), 0, 0)
    /\ UNCHANGED <<now, SESSION_TTL_SECONDS, issuedTokens, awaiting, reqTok, wishlist,
                   wCart, notWish>>

\* The cart has arrived: an empty cart is answered at once, otherwise the
\* wishlist is requested.
ws_cart_return ==
    /\ wpc = "cart_get"
    /\ \E status \in {200, 500} :
         IF status >= 400
         THEN SyncEnds(wrun, Err(502, "nopCommerce frontend GET failed"), 0, 0)
         ELSE LET run == [wrun EXCEPT !.cartOk = TRUE, !.cart_products = cart_products(wCart)]
              IN IF run.cart_products = {}
                 THEN SyncEnds(run, Ok(0), 0, 0)
                 ELSE /\ wpc' = "wish_get"
                      /\ wrun' = run
                      /\ UNCHANGED wlog
    /\ UNCHANGED <<now, sessVars, reqTok, wishlist, wCart, notWish>>

\* The wishlist has arrived: nc_get_wishlist raises on status >= 400; otherwise
\* the missing products are computed, and nc_update_wishlist returns at once
\* when there are none and posts them in one call when there are some.
ws_wishlist_return ==
    /\ wpc = "wish_get"
    /\ \E status \in {200, 500} :
         IF status >= 400
         THEN SyncEnds([wrun EXCEPT !.readFailed = TRUE],
                       Err(502, "nopCommerce wishlist read failed"), 0, 0)
         ELSE LET read == wishlist_products(wishlist)
                  run == [wrun EXCEPT !.wishAt = wishlist,
                                      !.wishlist_products = read,
                                      !.to_add = ToAdd(wrun.cart_products, read)]
              IN IF run.to_add = {}
                 THEN SyncEnds(run, Ok(0), 0, Cardinality(run.cart_products))
                 ELSE /\ \E o \in Orders(run.to_add) :
                            wrun' = [run EXCEPT !.calls = Append(run.calls, AddToWishlist(o))]
                      /\ wpc' = "upd_post"
                      /\ UNCHANGED wlog
    /\ UNCHANGED <<now, sessVars, reqTok, wishlist, wCart, notWish>>

\* The UpdateWishlist call returns: an error status is turned into None, and
\* in both cases the handler answers with the counts.
ws_update_return ==
    /\ wpc = "upd_post"
    /\ \E status \in {200, 500} :
         /\ wishlist' = IF status >= 400 THEN wishlist
                        ELSE UpdateWishlist(wishlist, wrun.calls[Len(wrun.calls)])
         /\ SyncEnds([wrun EXCEPT !.updFailed = (status >= 400)], Ok(0),
                     Cardinality(wrun.to_add),
                     Cardinality(wrun.cart_products) - Cardinality(wrun.to_add))
    /\ UNCHANGED <<now, sessVars, reqTok, wCart, notWish>>

WishProductIds == {1, 2, 12}

InitWish ==
    /\ now = 0
    /\ credsOk = TRUE
    /\ AdminFresh
    /\ \E e \in {-1, DefaultSessionTtl} : OneSession(e)
    /\ reqTok \in {1, 2}
    /\ PricesUnused
    /\ OrderUnused
    /\ CartUnused
    /\ wishlist \in SUBSET WishProductIds
    /\ wCart \in {<<>>, <<1>>, <<1, 12>>, <<12, 2, 12>>}
    /\ wpc = "start"
    /\ wrun = NoRun
    /\ wlog = <<>>
    /\ RmaUnused
    /\ ClientUnused
    /\ rmaDone = <<>>

NextWish ==
    \/ vf_wishlist_sync
    \/ ws_cart_return
    \/ ws_wishlist_return
    \/ ws_update_return

SpecWish == InitWish /\ [][NextWish]_vars

(***************************************************************************)
(* Claims about the wishlist sync (SpecWish).                              *)
(***************************************************************************)
\* The distinct product ids of the cart, and the products a run asked the
\* store to add, read back from the calls it made.
CartSet == {wCart[i] : i \in 1..Len(wCart)}
Requested(run) ==
    UNION {{ParseInt(Split(run.calls[c])[i]) : i \in 1..Len(Split(run.calls[c]))} :
              c \in 1..Len(run.calls)}

\* C11: a sync asks the store to add exactly the cart's products that were not
\* in the wishlist it read, in at most one update call and in none when there
\* are no such products; when it answers, added is the number of those
\* products and skipped the number of distinct cart products already in the
\* wishlist, so that added + skipped is the number of distinct cart products.
C11_SyncDiff ==
    /\ Len(wrun.calls) <= 1
    /\ wrun.calls # <<>> => /\ Requested(wrun) = CartSet \ wrun.wishAt
                            /\ Len(Split(wrun.calls[1])) = Cardinality(CartSet \ wrun.wishAt)
    /\ \A k \in 1..Len(wlog) :
          LET e == wlog[k]
              missing == IF e.run.cartOk THEN CartSet \ e.run.wishAt ELSE {}
          IN e.res.ok =>
                /\ Len(e.run.calls) <= 1
                /\ Requested(e.run) = missing
                /\ (missing = {}) <=> (e.run.calls = <<>>)
                /\ e.added = Cardinality(missing)
                /\ e.skipped = Cardinality(CartSet \cap e.run.wishAt)
                /\ e.added + e.skipped = Cardinality(CartSet)

\* C11 witness: of the cart's products 2 and 12 (12 on two lines) only 2 was
\* in the wishlist; one call asked for 12 and the sync answered 1 added, 1 skipped.
C11_Witness ==
    /\ wCart = <<12, 2, 12>>
    /\ Len(wlog) >= 1
    /\ wlog[1].res.ok
    /\ wlog[1].run.wishAt = {1, 2}
    /\ wlog[1].run.calls = << <<"1", "2">> >>
    /\ wlog[1].added = 1 /\ wlog[1].skipped = 1

\* C12 as stated: whenever two syncs in a row have both answered, the second
\* reports added = 0.
C12_Original ==
    \A k \in 1..(Len(wlog) - 1) :
        (wlog[k].res.ok /\ wlog[k + 1].res.ok) => wlog[k + 1].added = 0

\* C12: whenever two syncs in a row have both answered and the first either
\* had nothing to add or had its update call accepted by the store, the second
\* reports added = 0 and makes no update call.
C12_Idempotent ==
    \A k \in 1..(Len(wlog) - 1) :
        (wlog[k].res.ok /\ wlog[k + 1].res.ok /\ ~wlog[k].run.updFailed)
            => wlog[k + 1].added = 0 /\ wlog[k + 1].run.calls = <<>>

\* C12 witness: the first sync added two products with a call the store
\* accepted, the second found nothing to add.
C12_Witness ==
    /\ Len(wlog) >= 2
    /\ wlog[1].res.ok /\ wlog[1].added = 2 /\ ~wlog[1].run.updFailed
    /\ wlog[2].res.ok /\ wlog[2].added = 0 /\ wlog[2].skipped = 2

\* C13: a sync with a valid session and a successful cart read answers with a
\* success result whatever the store answers to the wishlist calls.
C13_NeverFails ==
    \A k \in 1..Len(wlog) :
        (wlog[k].run.sessOk /\ wlog[k].run.cartOk) => wlog[k].res.ok

\* C14: a sync whose wishlist update call failed at the store answers with a
\* success result that reports added = 0.
C14_FailureIsZero ==
    \A k \in 1..Len(wlog) :
        wlog[k].run.updFailed => (wlog[k].res.ok /\ wlog[k].added = 0)

(***************************************************************************)
(* RMA creation: POST /vf/rma/create                                       *)
(*                                                                         *)
(* One request.  Its coroutine is task RmaTask of the admin-token          *)
(* component.  Reason, action, comments and timestamps are copied from the *)
(* body into both payloads without entering any decision and are left out. *)
(***************************************************************************)
RmaTask == 1
BackendCustomer == 7
NewRmaId == 501

\* "for i in order_data.get('items', []): if i.get('id') == body.orderItemId":
\* the position of the first matching line, 0 for None.
FindItem(items, order_item_id) ==
    IF \E i \in 1..Len(items) : items[i].id = order_item_id
    THEN CHOOSE i \in 1..Len(items) :
            /\ items[i].id = order_item_id
            /\ \A j \in 1..(i - 1) : items[j].id # order_item_id
    ELSE 0

\* "body.quantity <= 0 or body.quantity > ordered_qty"
InvalidQuantity_NoUpper(quantity, ordered_qty) == quantity <= 0
InvalidQuantity(quantity, ordered_qty) == quantity <= 0 \/ quantity > ordered_qty

\* The inner loop over the items of one shipment:
\* "if si.get('order_item_id') == body.orderItemId: shipped_qty += si.get('quantity', 0)"
RECURSIVE ShippedIn_AnyLine(_, _)
ShippedIn_AnyLine(items, order_item_id) ==
    IF items = <<>> THEN 0
    ELSE QuantityOf(Head(items)) + ShippedIn_AnyLine(Tail(items), order_item_id)
RECURSIVE ShippedIn(_, _)
ShippedIn(items, order_item_id) ==
    IF items = <<>> THEN 0
    ELSE (IF Head(items).order_item_id = Field(order_item_id)
          THEN QuantityOf(Head(items)) ELSE 0)
         + ShippedIn(Tail(items), order_item_id)

\* The payload of ReturnRequest/Create
CreatePayload(body, customer_id) ==
    [order_item_id |-> body.orderItemId,
     customer_id |-> customer_id,
     quantity |-> body.quantity,
     return_request_status_id |-> 0]

\* The payload of ReturnRequest/Update
UpdatePayload_Pending(body, customer_id, rma_id) ==
    [id |-> rma_id,
     custom_number |-> Decimal(rma_id),
     order_item_id |-> body.orderItemId,
     customer_id |-> customer_id,
     quantity |-> body.quantity,
     returned_quantity |-> 0,
     return_request_status_id |-> 0]
UpdatePayload(body, customer_id, rma_id) ==
    [id |-> rma_id,
     custom_number |-> Decimal(rma_id),
     order_item_id |-> body.orderItemId,
     customer_id |-> customer_id,
     quantity |-> body.quantity,
     returned_quantity |-> 0,
     return_request_status_id |-> 10]

\* The request ends with an HTTPException.
RmaFail(st, d) ==
    /\ rpc' = "done"
    /\ rResp' = Err(st, d)

\* vf_create_rma up to its first await: the session is validated and the
\* frontend order is requested.
vf_create_rma_FetchFirst ==
    /\ rpc = "start"
    /\ Validate("rma", reqTok)
    /\ rpc' = "order_get" /\ UNCHANGED rResp
    /\ UNCHANGED <<now, SESSION_TTL_SECONDS, issuedTokens, awaiting, reqTok, adminVars,
                   rBody, rma, rCreates, rUpdates, rmaStore, notRma>>
vf_create_rma ==
    /\ rpc = "start"
    /\ Validate("rma", reqTok)
    /\ IF RequireResult(SESSIONS, reqTok, now).ok
       THEN rpc' = "order_get" /\ UNCHANGED rResp
       ELSE RmaFail(401, RequireResult(SESSIONS, reqTok, now).detail)
    /\ UNCHANGED <<now, SESSION_TTL_SECONDS, issuedTokens, awaiting, reqTok, adminVars,
                   rBody, rma, rCreates, rUpdates, rmaStore, notRma>>

\* What the frontend order endpoint may answer: the order's lines and the
\* shipments it lists, each with or without an id.
RmaShipmentLists ==
    UNION {{[i \in 1..n |-> [id |-> IF withId[i] THEN 10 + i ELSE 0]] :
               withId \in [1..n -> BOOLEAN]} : n \in 0..MaxShipments}

RmaOrderResponses ==
    {[status |-> 404, id |-> 0, items |-> <<>>, shipments |-> <<>>],
     [status |-> 200, id |-> 0, items |-> <<>>, shipments |-> <<>>]}
    \cup [status : {200}, id : {OrderId}, items : OrderItemLists, shipments : RmaShipmentLists]

\* The frontend order has arrived; nc_get_backend_json starts.
rma_order_return ==
    /\ rpc = "order_get"
    /\ \E r \in RmaOrderResponses :
         IF r.status >= 400 THEN
             RmaFail(502, "nopCommerce frontend GET failed") /\ UNCHANGED rma
         ELSE IF ~TruthyId(r.id) THEN
             RmaFail(500, "Order ID not found") /\ UNCHANGED rma
         ELSE
             /\ rpc' = "bo_tok"
             /\ rma' = [rma EXCEPT !.items = r.items, !.shipments = r.shipments,
                                   !.fetched = [i \in 1..Len(r.shipments) |-> <<>>]]
             /\ UNCHANGED rResp
    /\ UNCHANGED <<now, adminVars, sessVars, reqTok, rBody, rCreates, rUpdates, rmaStore,
                   notRma>>

\* The positions at which the request calls get_admin_token() and the call
\* that follows each: nc_get_backend_json, nc_get_shipment_items,
\* nc_create_return_request, nc_update_return_request.
RmaTokenPhases == {"bo_tok", "items_tok", "create_tok", "update_tok"}
RmaAfterToken(p) ==
    IF p = "bo_tok" THEN "bo_get"
    ELSE IF p = "items_tok" THEN "items_get"
    ELSE IF p = "create_tok" THEN "create_post"
    ELSE "update_put"

rma_get_token ==
    /\ rpc \in RmaTokenPhases
    /\ get_admin_token(RmaTask)

\* get_admin_token() has returned: the call is issued with the token, or the
\* exception ends the request.
rma_token_return ==
    /\ rpc \in RmaTokenPhases
    /\ pc[RmaTask] = "tokdone"
    /\ IF tokres[RmaTask].ok
       THEN /\ rpc' = RmaAfterToken(rpc)
            /\ rCreates' = IF rpc = "create_tok"
                           THEN Append(rCreates, CreatePayload(rBody, rma.customer_id))
                           ELSE rCreates
            /\ rUpdates' = IF rpc = "update_tok"
                           THEN Append(rUpdates, UpdatePayload(rBody, rma.customer_id, rma.rma_id))
                           ELSE rUpdates
            /\ UNCHANGED rResp
       ELSE /\ RmaFail(tokres[RmaTask].status, tokres[RmaTask].detail)
            /\ UNCHANGED <<rCreates, rUpdates>>
    /\ pc' = [pc EXCEPT ![RmaTask] = "idle"]
    /\ tokres' = [tokres EXCEPT ![RmaTask] = NoResult]
    /\ staleEntry' = [staleEntry EXCEPT ![RmaTask] = FALSE]
    /\ issued' = [issued EXCEPT ![RmaTask] = FALSE]
    /\ UNCHANGED <<now, credsOk, ADMIN_TOKEN, ADMIN_TOKEN_EXPIRES_AT, lockHolder,
                   lockWaiters, reqId, authCalls, nCalls, lastOkAt, lastExpiresIn, sessVars, reqTok,
                   rBody, rma, rmaStore, notRma>>

\* What the backend order endpoint may answer.
BackendOrderResponses == [status : {200, 500}, customer_id : {0, BackendCustomer}]

\* The backend order has arrived: the customer id is required, the target line
\* is located, the quantity is validated against the ordered quantity, and the
\* loop over the order's shipments starts.
rma_backend_return ==
    /\ rpc = "bo_get"
    /\ \E r \in BackendOrderResponses :
         LET t == FindItem(rma.items, rBody.orderItemId)
         IN IF r.status >= 400 THEN
                RmaFail(502, "nopCommerce GET failed") /\ UNCHANGED rma
            ELSE IF ~TruthyId(r.customer_id) THEN
                RmaFail(500, "Customer ID not found") /\ UNCHANGED rma
            ELSE IF t = 0 THEN
                /\ RmaFail(404, "Order item not found")
                /\ rma' = [rma EXCEPT !.customer_id = r.customer_id]
            ELSE IF InvalidQuantity(rBody.quantity, rma.items[t].quantity) THEN
                /\ RmaFail(400, "Invalid return quantity")
                /\ rma' = [rma EXCEPT !.customer_id = r.customer_id]
            ELSE
                /\ rpc' = "loop"
                /\ rma' = [rma EXCEPT !.customer_id = r.customer_id, !.cur = 1]
                /\ UNCHANGED rResp
    /\ UNCHANGED <<now, adminVars, sessVars, reqTok, rBody, rCreates, rUpdates, rmaStore,
                   notRma>>

\* The head of the shipment loop: a shipment without id is skipped, the items
\* of any other are fetched; after the last one the shipped quantity decides.
rma_next_shipment ==
    /\ rpc = "loop"
    /\ IF rma.cur > Len(rma.shipments) THEN
           IF rma.shipped_qty < rBody.quantity
           THEN RmaFail(400, "Return quantity exceeds shipped quantity") /\ UNCHANGED rma
           ELSE rpc' = "create_tok" /\ UNCHANGED <<rma, rResp>>
       ELSE IF ~TruthyId(rma.shipments[rma.cur].id) THEN
           /\ rma' = [rma EXCEPT !.cur = rma.cur + 1]
           /\ UNCHANGED <<rpc, rResp>>
       ELSE rpc' = "items_tok" /\ UNCHANGED <<rma, rResp>>
    /\ UNCHANGED <<now, adminVars, sessVars, reqTok, rBody, rCreates, rUpdates, rmaStore,
                   notRma>>

\* The items of shipment cur have arrived and are added up.
rma_items_return ==
    /\ rpc = "items_get"
    /\ \E r \in ShipmentItemResponses :
         IF r.status >= 400 THEN
             RmaFail(502, "nopCommerce GET failed") /\ UNCHANGED rma
         ELSE
             /\ rpc' = "loop"
             /\ rma' = [rma EXCEPT
                          !.shipped_qty = rma.shipped_qty + ShippedIn(r.list, rBody.orderItemId),
                          !.fetched = [rma.fetched EXCEPT ![rma.cur] = r.list],
                          !.cur = rma.cur + 1]
             /\ UNCHANGED rResp
    /\ UNCHANGED <<now, adminVars, sessVars, reqTok, rBody, rCreates, rUpdates, rmaStore,
                   notRma>>

\* What ReturnRequest/Create may answer.  When it accepts the call the store
\* holds the new return request as sent, whether or not the answer names it.
NextRmaId(store) == NewRmaId + Cardinality(DOMAIN store)
CreateResponses(newId) == [status : {200, 500}, id : {0, newId}]

rma_create_return ==
    /\ rpc = "create_post"
    /\ \E r \in CreateResponses(NextRmaId(rmaStore)) :
         IF r.status >= 400 THEN
             /\ RmaFail(502, "nopCommerce ReturnRequest/Create failed")
             /\ UNCHANGED <<rma, rmaStore>>
         ELSE
             /\ rmaStore' = [k \in DOMAIN rmaStore \cup {NextRmaId(rmaStore)} |->
                                IF k \in DOMAIN rmaStore THEN rmaStore[k]
                                ELSE [status |->
                                         rCreates[Len(rCreates)].return_request_status_id,
                                      custom_number |-> <<>>]]
             /\ IF ~TruthyId(r.id)
                THEN RmaFail(500, "RMA ID not returned from Create") /\ UNCHANGED rma
                ELSE /\ rpc' = "update_tok"
                     /\ rma' = [rma EXCEPT !.rma_id = r.id]
                     /\ UNCHANGED rResp
    /\ UNCHANGED <<now, adminVars, sessVars, reqTok, rBody, rCreates, rUpdates, notRma>>

\* ReturnRequest/Update returns: the store has taken over the number and the
\* status sent, or has refused the call.
rma_update_return_Retry ==
    /\ rpc = "update_put"
    /\ \E status \in {200, 500} :
         IF status >= 400 THEN
             /\ rpc' = "update_tok"
             /\ UNCHANGED <<rmaStore, rResp>>
         ELSE
             /\ LET u == rUpdates[Len(rUpdates)]
                IN rmaStore' = [k \in DOMAIN rmaStore |->
                                   IF k = u.id
                                   THEN [status |-> u.return_request_status_id,
                                         custom_number |-> u.custom_number]
                                   ELSE rmaStore[k]]
             /\ rpc' = "done"
             /\ rResp' = Ok(rma.rma_id)
    /\ UNCHANGED <<now, adminVars, sessVars, reqTok, rBody, rma, rCreates, rUpdates,
                   notRma>>
rma_update_return ==
    /\ rpc = "update_put"
    /\ \E status \in {200, 500} :
         IF status >= 400 THEN
             /\ RmaFail(502, "nopCommerce ReturnRequest/Update failed")
             /\ UNCHANGED rmaStore
         ELSE
             /\ LET u == rUpdates[Len(rUpdates)]
                IN rmaStore' = [k \in DOMAIN rmaStore |->
                                   IF k = u.id
                                   THEN [status |-> u.return_request_status_id,
                                         custom_number |-> u.custom_number]
                                   ELSE rmaStore[k]]
             /\ rpc' = "done"
             /\ rResp' = Ok(rma.rma_id)
    /\ UNCHANGED <<now, adminVars, sessVars, reqTok, rBody, rma, rCreates, rUpdates,
                   notRma>>

\* CreateRmaBody: the targeted order line and the quantity to return
RmaBodies == [orderItemId : {1, 3}, quantity : {-1, 0, 1, 2, 3}]

InitRma ==
    /\ now = 0
    /\ credsOk \in BOOLEAN
    /\ AdminFresh
    /\ \E e \in {-1, DefaultSessionTtl} : OneSession(e)
    /\ reqTok \in {1, 2}
    /\ PricesUnused
    /\ OrderUnused
    /\ CartUnused
    /\ WishUnused
    /\ rpc = "start"
    /\ rBody \in RmaBodies
    /\ rma = NoRma
    /\ rCreates = <<>>
    /\ rUpdates = <<>>
    /\ rmaStore = <<>>
    /\ rResp = NoResult
    /\ ClientUnused
    /\ rmaDone = <<>>

NextRma ==
    \/ vf_create_rma
    \/ rma_order_return
    \/ rma_get_token
    \/ AdminPostReturn(RmaTask)
    \/ rma_token_return
    \/ rma_backend_return
    \/ rma_next_shipment
    \/ rma_items_return
    \/ rma_create_return
    \/ rma_update_return

SpecRma == InitRma /\ [][NextRma]_vars

(***************************************************************************)
(* Claims about the RMA creation (SpecRma).                                *)
(***************************************************************************)
\* The order lines with the targeted id, whether the request got as far as
\* looking for it, and the ordered quantity of the line.
TargetLines == {i \in 1..Len(rma.items) : rma.items[i].id = rBody.orderItemId}
Resolved == rma.customer_id # 0
OrderedOfTarget == rma.items[CHOOSE i \in TargetLines : \A j \in TargetLines : i <= j].quantity

\* The shipment line items that reference the targeted line, in the shipments
\* the loaded order lists, and the sum of their quantities.
RmaReferencing ==
    {p \in UNION {{<<i, j>> : j \in 1..Len(rma.fetched[i])} : i \in 1..Len(rma.fetched)} :
        rma.fetched[p[1]][p[2]].order_item_id = Field(rBody.orderItemId)}

RECURSIVE RmaSumOver(_)
RmaSumOver(P) ==
    IF P = {} THEN 0
    ELSE LET p == CHOOSE x \in P : TRUE
             q == rma.fetched[p[1]][p[2]].quantity
         IN (IF q.has THEN q.val ELSE 0) + RmaSumOver(P \ {p})

ShippedOfTarget == RmaSumOver(RmaReferencing)

\* C15: a request whose quantity is 0, negative or greater than the ordered
\* quantity of the target line never issues a create or an update call and
\* never succeeds; once the order is resolved and holds the target line, the
\* request fails with 400 "Invalid return quantity".
C15_InvalidQuantity ==
    (rBody.quantity <= 0 \/ (TargetLines # {} /\ rBody.quantity > OrderedOfTarget)) =>
        /\ rCreates = <<>> /\ rUpdates = <<>> /\ rmaStore = <<>>
        /\ ~rResp.ok
        /\ (Resolved /\ TargetLines # {}) =>
               (rpc = "done" /\ rResp = Err(400, "Invalid return quantity"))

\* C15 witness: line 1 was ordered twice, 3 were asked to be returned, and the
\* resolved request was refused.
C15_Witness ==
    /\ rBody = [orderItemId |-> 1, quantity |-> 3]
    /\ Resolved /\ TargetLines # {} /\ OrderedOfTarget = 2
    /\ rResp = Err(400, "Invalid return quantity")
    /\ rCreates = <<>>

\* C16: a create call is issued only when the loaded order holds the target
\* line, every listed shipment has been read and the requested quantity does
\* not exceed the quantity shipped for the line; a resolved request for a line
\* the order does not hold fails with 404, and one for more than was shipped
\* fails with 400 "Return quantity exceeds shipped quantity", with no call.
C16_CreateOnlyIfShipped ==
    /\ rCreates # <<>> =>
          /\ TargetLines # {}
          /\ rma.cur > Len(rma.shipments)
          /\ rBody.quantity <= ShippedOfTarget
    /\ (Resolved /\ TargetLines = {}) =>
          /\ rpc = "done" /\ rResp = Err(404, "Order item not found")
          /\ rCreates = <<>> /\ rmaStore = <<>>
    /\ ( /\ Resolved /\ TargetLines # {}
         /\ 0 < rBody.quantity /\ rBody.quantity <= OrderedOfTarget
         /\ rma.cur > Len(rma.shipments)
         /\ rBody.quantity > ShippedOfTarget
         /\ rpc # "loop" ) =>
          /\ rpc = "done" /\ rResp = Err(400, "Return quantity exceeds shipped quantity")
          /\ rCreates = <<>> /\ rmaStore = <<>>

\* C16 witness: 2 of line 1 were asked to be returned, two shipments carried 1
\* each of line 1 next to other lines, and the create call was issued.
C16_Witness ==
    /\ rBody = [orderItemId |-> 1, quantity |-> 2]
    /\ Len(rma.shipments) = 2
    /\ rma.fetched[1] = <<ShipmentItem(Field(1), Field(1)), ShipmentItem(Field(2), Field(1))>>
    /\ rma.fetched[2] = <<ShipmentItem(Field(1), Field(1))>>
    /\ Len(rCreates) = 1

\* C17: the create call carries status 0 and is issued at most once; an update
\* call is issued only after the create call has returned an id, at most once,
\* for that id, with the id as custom number and status 10; and a success
\* response carries that id and is given only when the store holds the return
\* request with that number and status 10.
C17_Workflow ==
    /\ Len(rCreates) <= 1 /\ Len(rUpdates) <= 1
    /\ \A c \in 1..Len(rCreates) : rCreates[c].return_request_status_id = 0
    /\ (rma.rma_id # 0 \/ rUpdates # <<>>) =>
          /\ rCreates # <<>>
          /\ rma.rma_id \in DOMAIN rmaStore
    /\ \A u \in 1..Len(rUpdates) :
          /\ rma.rma_id # 0
          /\ rUpdates[u].id = rma.rma_id
          /\ ParseInt(rUpdates[u].custom_number) = rma.rma_id
          /\ rUpdates[u].return_request_status_id = 10
    /\ rmaStore # <<>> /\ rUpdates = <<>> => rmaStore[NewRmaId].status = 0
    /\ rResp.ok =>
          /\ rpc = "done"
          /\ rResp.val = rma.rma_id
          /\ Len(rUpdates) = 1
          /\ rmaStore[rResp.val] = [status |-> 10, custom_number |-> Decimal(rResp.val)]

\* C17 witness: the request has succeeded with the id of the return request,
\* which the store holds as open under the number "501".
C17_Witness ==
    /\ rpc = "done" /\ rResp = Ok(NewRmaId)
    /\ rmaStore[NewRmaId] = [status |-> 10, custom_number |-> <<"5", "0", "1">>]


\* The finalize step: the update call of a request whose create call returned
\* an id; the record as the create call left it.
Finalizing == rpc \in {"update_tok", "update_put"}
PendingRecord == [status |-> 0, custom_number |-> <<>>]

\* C22: when the update call is refused after the create call returned an id,
\* the request ends there with the status 502 of an upstream error, no further
\* create or update call is issued, and the store keeps the record in status 0
\* with no custom number.
C22_FinalizeFailure ==
    /\ [][(rpc = "update_put" /\ rpc' # "update_put" /\ rmaStore' = rmaStore)
            => /\ rpc' = "done"
               /\ rResp' = Err(502, "nopCommerce ReturnRequest/Update failed")
               /\ rCreates' = rCreates /\ rUpdates' = rUpdates]_vars
    /\ [][(Finalizing /\ rpc' = "done" /\ ~rResp'.ok)
            => /\ rResp'.status = 502
               /\ rmaStore' = rmaStore]_vars
    /\ []((rpc = "done" /\ ~rResp.ok /\ rma.rma_id # 0)
            => /\ Len(rCreates) = 1 /\ Len(rUpdates) <= 1
               /\ DOMAIN rmaStore = {rma.rma_id}
               /\ rmaStore[rma.rma_id] = PendingRecord)

\* C22 witness: the create call returned id 501, the update call was issued
\* once and refused, and the request has ended with 502.
C22_Witness ==
    /\ rpc = "done"
    /\ rResp = Err(502, "nopCommerce ReturnRequest/Update failed")
    /\ rma.rma_id = NewRmaId
    /\ Len(rCreates) = 1 /\ Len(rUpdates) = 1
    /\ rmaStore[NewRmaId] = PendingRecord

(***************************************************************************)
(* Upstream client: nc_post_json and nc_get_json                           *)
(*                                                                         *)
(* The two functions as maps from the upstream's answer to what the call   *)
(* returns or raises, applied to MaxClientCalls answers in a row.          *)
(***************************************************************************)
MaxClientCalls == 2

\* An answer of the upstream: its status and its body, which is empty, some
\* text that is not JSON, or JSON holding an object.
JsonObjects == {EmptyMap, [k \in {"id"} |-> <<"5">>]}
UpstreamAnswers ==
    [status : {200, 204, 399, 400, 500}, body : {"json"}, data : JsonObjects]
    \cup [status : {200, 204, 399, 400, 500}, body : {"empty", "text"}, data : {EmptyMap}]

\* How a call ends: it returns a value, raises HTTPException(502), or raises
\* the ValueError of r.json().
Returns(v) == [kind |-> "return", status |-> 0, val |-> v]
RaisesHttp(st) == [kind |-> "HTTPException", status |-> st, val |-> EmptyMap]
RaisesValueError == [kind |-> "ValueError", status |-> 0, val |-> EmptyMap]

\* nc_post_json from the answer on: "if r.status_code >= 400: raise", "if not
\* r.content: return {}", "try: return r.json() except ValueError: return {}"
nc_post_json(r) ==
    IF r.status >= 400 THEN RaisesHttp(502)
    ELSE IF r.body = "empty" THEN Returns(EmptyMap)
    ELSE IF r.body = "json" THEN Returns(r.data)
    ELSE Returns(EmptyMap)

\* nc_get_json from the answer on: "if r.status_code >= 400: raise", "return
\* r.json()"
nc_get_json(r) ==
    IF r.status >= 400 THEN RaisesHttp(502)
    ELSE IF r.body = "json" THEN Returns(r.data)
    ELSE RaisesValueError

\* One call of each function, with the answer it got.
post_call ==
    /\ Len(clientLog) < MaxClientCalls
    /\ \E r \in UpstreamAnswers :
         clientLog' = Append(clientLog, [op |-> "post", answer |-> r, res |-> nc_post_json(r)])
    /\ UNCHANGED <<now, adminVars, sessVars, reqTok, priceVars, orderVars, cartVars,
                   wishVars, rmaVars, rmaSeqVars>>

get_call ==
    /\ Len(clientLog) < MaxClientCalls
    /\ \E r \in UpstreamAnswers :
         clientLog' = Append(clientLog, [op |-> "get", answer |-> r, res |-> nc_get_json(r)])
    /\ UNCHANGED <<now, adminVars, sessVars, reqTok, priceVars, orderVars, cartVars,
                   wishVars, rmaVars, rmaSeqVars>>

InitClient ==
    /\ now = 0
    /\ credsOk = TRUE
    /\ AdminFresh
    /\ SessUnused
    /\ reqTok = 0
    /\ PricesUnused
    /\ OrderUnused
    /\ CartUnused
    /\ WishUnused
    /\ RmaUnused
    /\ ClientUnused
    /\ rmaDone = <<>>

NextClient ==
    \/ post_call
    \/ get_call

SpecClient == InitClient /\ [][NextClient]_vars

\* C25: a call, post or get, that was answered with a status below 400 and a
\* body that is empty or not JSON returns the empty object and raises nothing.
C25_EmptyBodyIsEmptyObject ==
    \A i \in 1..Len(clientLog) :
        (clientLog[i].answer.status < 400 /\ clientLog[i].answer.body \in {"empty", "text"})
        => /\ clientLog[i].res.kind = "return"
           /\ clientLog[i].res.val = EmptyMap

(***************************************************************************)
(* The authenticated handlers together: one request to /vf/prices,         *)
(* /vf/orders/details, /vf/rma/create or /vf/wishlist/sync, or the         *)
(* concurrent requests to /vf/cart/update, with a session token that is    *)
(* stored, expired or unknown.                                             *)
(***************************************************************************)
InitGateway ==
    \/ InitPrices
    \/ InitOrder
    \/ InitCart
    \/ InitWish
    \/ InitRma

NextGateway ==
    \/ ppc # "none" /\ NextPrices
    \/ opc # "none" /\ NextOrder
    \/ cpc # <<>> /\ NextCart
    \/ wpc # "none" /\ NextWish
    \/ rpc # "none" /\ NextRma

SpecGateway == InitGateway /\ [][NextGateway]_vars

\* require_session_token would accept / reject the token now.
Accepted(tok) == RequireResult(SESSIONS, tok, now).ok
Rejected(tok) == ~RequireResult(SESSIONS, tok, now).ok

\* Upstream traffic of the request in progress: an admin-token acquisition
\* started, a handler past its validation with a call in flight, or data that
\* only an upstream call delivers.
AdminTraffic == authCalls > 0 \/ nCalls > 0 \/ \E t \in Tasks : pc[t] # "idle"
HandlerTraffic ==
    \/ ppc = "gather"
    \/ opc \notin {"none", "start", "done"} \/ orderData # <<>> \/ rmaAnswer # NoAnswer
    \/ wpc \notin {"none", "start", "done"} \/ wrun # NoRun
    \/ rpc \notin {"none", "start", "done"} \/ rma # NoRma \/ rCreates # <<>>
          \/ rUpdates # <<>> \/ rmaStore # <<>>
CartTraffic(r) ==
    cpc[r] \in {"reading", "posting"} \/ cart_items[r] # <<>> \/ payload[r] # EmptyMap

\* A handler leaves its entry point in this step.
LeavesStart(at, at2) == at = "start" /\ at2 # "start"

\* The step in which a handler finds its token absent or expired ends the
\* request with that failure and leaves the admin-token state and the store's
\* data alone.
RejectedStep ==
    /\ (LeavesStart(ppc, ppc') /\ Rejected(reqTok))
          => (ppc' = "done" /\ priceResp'.res.status = 401)
    /\ (LeavesStart(opc, opc') /\ Rejected(reqTok))
          => (opc' = "done" /\ orderResp'.res.status = 401)
    /\ (LeavesStart(rpc, rpc') /\ Rejected(reqTok))
          => (rpc' = "done" /\ rResp'.status = 401)
    /\ (wpc = "start" /\ wlog' # wlog /\ Rejected(reqTok))
          => (/\ wlog'[Len(wlog')].res.status = 401
              /\ wlog'[Len(wlog')].run = NoRun
              /\ wishlist' = wishlist)
    /\ \A r \in DOMAIN cpc :
          (LeavesStart(cpc[r], cpc'[r]) /\ Rejected(updBody[r].sessionToken))
          => (cpc'[r] = "done" /\ ~updResp'[r].ok /\ cart' = cart)
    /\ ((\E r \in DOMAIN cpc :
             LeavesStart(cpc[r], cpc'[r]) /\ Rejected(updBody[r].sessionToken))
        \/ ((ppc = "start" \/ opc = "start" \/ rpc = "start" \/ wpc = "start")
              /\ Rejected(reqTok)))
          => (adminVars' = adminVars)

NumRmaRequests == 2

\* What a successful request has created: the line, the quantity, and the
\* shipped quantity the handler computed for the line.
CreatedBy(body, locals) ==
    [order_item_id |-> body.orderItemId, quantity |-> body.quantity,
     shipped_qty |-> locals.shipped_qty]

\* The same body is posted to /vf/rma/create again after a success response.
rma_repeat_request ==
    /\ rpc = "done" /\ rResp.ok
    /\ Len(rmaDone) + 1 < NumRmaRequests
    /\ rmaDone' = Append(rmaDone, CreatedBy(rBody, rma))
    /\ rpc' = "start"
    /\ rma' = NoRma
    /\ rResp' = NoResult
    /\ UNCHANGED <<now, adminVars, sessVars, reqTok, rBody, rCreates, rUpdates, rmaStore,
                   priceVars, orderVars, cartVars, wishVars, clientVars>>

NextRmaSeq ==
    \/ NextRma
    \/ rma_repeat_request

SpecRmaSeq == InitRma /\ [][NextRmaSeq]_vars

\* The requests answered with success so far, the total quantity of the
\* return requests they created for a line, and the largest shipped quantity
\* any of them computed for it.
SucceededRmas ==
    rmaDone \o (IF rpc = "done" /\ rResp.ok THEN <<CreatedBy(rBody, rma)>> ELSE <<>>)
RECURSIVE TotalReturned(_, _)
TotalReturned(log, line) ==
    IF log = <<>> THEN 0
    ELSE (IF Head(log).order_item_id = line THEN Head(log).quantity ELSE 0)
         + TotalReturned(Tail(log), line)
RECURSIVE MaxShipped(_, _)
MaxShipped(log, line) ==
    IF log = <<>> THEN 0
    ELSE Max(IF Head(log).order_item_id = line THEN Head(log).shipped_qty ELSE 0,
             MaxShipped(Tail(log), line))

\* C29: the total quantity of the return requests created for an order line
\* never exceeds the quantity shipped for that line.
C29_TotalWithinShipped ==
    \A line \in {b.orderItemId : b \in RmaBodies} :
        TotalReturned(SucceededRmas, line) <= MaxShipped(SucceededRmas, line)
====
